---- MODULE Spec2Model ----
(***************************************************************************)
(* A model of the Droplet virtual machine (src/src/vm): the operand stack  *)
(* and call frames, the interpreter loop VM::run with its opcodes, the     *)
(* garbage collector's root walk, and the .dbc loader VM::load_dbc_file.   *)
(*                                                                         *)
(* The bytes of a function's code are an input of the machine: every       *)
(* instruction the loop fetches, with its immediates, is drawn from a      *)
(* small set, so a behaviour of the model is the execution of some         *)
(* program.  code_left is the number of instructions the fetched stream    *)
(* still holds.                                                            *)
(***************************************************************************)
EXTENDS Integers, Sequences, FiniteSets, TLC

VARIABLES
    stack_internal,   \* VM::stack_internal, the vector run() works on
    sp_internal,      \* VM::sp_internal
    stack,            \* VM::stack, the vector push/pop/peek work on
    sp,               \* VM::sp
    call_frames,      \* VM::call_frames
    globals,          \* VM::globals
    functions,        \* VM::functions
    function_index_by_name, \* VM::function_index_by_name
    global_constants, \* VM::global_constants
    native_functions_registry, \* name -> the callable register_native stored
    register_log,     \* the calls of register_native, in their order
    heap,             \* GC::heap: object id -> object, NoObject when free
    memThresholdForNextGcCall, \* GC::memThresholdForNextGcCall
    pc,               \* run(): "loop", "fetch", "done", "halted", "crashed", "exited";
                      \* "loading"; GC::markAll: "marking", "marked"
    ub,               \* the last instruction executed an undefined operation
    code_left,        \* instructions the stream still holds
    last,             \* the instruction executed last, with the stack before it
    trail,            \* where a run keeps one: its instructions, each with the stack before it
    native_log,       \* the callables the last instruction invoked, with their argc
    cerr,             \* the lines the last instruction wrote to std::cerr
    ffi,              \* per VM instance, its ffi: libs, library path -> handle
    ffi_log,          \* the calls of load_lib, in their order, with what dlopen gave
    call_log,         \* per frame: the stack as it was when CALL pushed the frame
    ret_log,          \* the last completed CALL ... RETURN pair
    gc_log,           \* the last collection: what it was given and what it kept
    loader            \* the state of load_dbc_file: input, result, reads

vars == <<stack_internal, sp_internal, stack, sp, call_frames, globals, functions,
          function_index_by_name, global_constants, native_functions_registry,
          register_log, heap, memThresholdForNextGcCall, pc, ub, code_left, last, trail,
          native_log, cerr, ffi, ffi_log, call_log, ret_log, gc_log, loader>>

(***************************************************************************)
(* Bounds of the model.                                                    *)
(***************************************************************************)
MaxCode == 4          \* instructions in a fetched stream
MaxFrames == 2        \* call depth explored
MaxOps == 3           \* instructions of a stream over the whole instruction set
GcThreshold == 3      \* MEM_THRESHOLD_FOR_NEXT_GC_CALL of the modelled build
MaxWrites == 2        \* instructions of a run of the writing instructions
MaxLoads == 1         \* calls of load_lib by the second VM instance

\* The VM instances of the process: 1 is the one whose run() is modelled, of
\* 2 only the library cache is.
VMs == {1, 2}
NoLibs == [libs |-> [p \in {} |-> 0]]
FfiPaths == {"libm"}   \* the library paths the second VM instance uses

U8 == 256
U16 == 65536

(***************************************************************************)
(* uint32_t.  A uint32_t value x is held as the integer with the same 32   *)
(* bits read as two's complement: x itself below 2^31, x - 2^32 from 2^31  *)
(* on (so 2^32 - 1 is -1).  The operators below are the unsigned ones on   *)
(* that form; sums are formed on 16-bit halves.                            *)
(***************************************************************************)
U32Add(a, b) ==
    LET lo == (a % U16) + (b % U16)
        hi == (a \div U16) + (b \div U16) + (lo \div U16)
        h == ((hi + 32768) % U16) - 32768
    IN h * U16 + (lo % U16)

U32Neg(a) == IF a = -2147483647 - 1 THEN a ELSE -a
U32Sub(a, b) == U32Add(a, U32Neg(b))

\* a < b, a <= b as unsigned numbers.
U32Lt(a, b) == IF (a < 0) = (b < 0) THEN a < b ELSE b < 0
U32Le(a, b) == a = b \/ U32Lt(a, b)

Max(a, b) == IF a >= b THEN a ELSE b
Min(a, b) == IF a <= b THEN a ELSE b

(***************************************************************************)
(* Values (Value.cpp) and heap objects (Object.h).                         *)
(***************************************************************************)
NULL == 0             \* the null Object pointer
MaxHeap == GcThreshold + 3
ObjIds == 1..MaxHeap

createNIL == [type |-> "NIL"]
createBOOL(v) == [type |-> "BOOL", b |-> v]
createOBJECT(v) == [type |-> "OBJECT", object |-> v]
createDOUBLE(v) == [type |-> "DOUBLE", d |-> v]

createINT(v) == [type |-> "INT", i |-> v]

NoObject == [kind |-> "None"]
\* destroyed: sweep has deleted the object; its record is what the freed memory
\* still holds until an allocation takes the place.
ObjString(s) == [kind |-> "String", marked |-> FALSE, destroyed |-> FALSE, value |-> s]
ObjArray(elems) == [kind |-> "Array", marked |-> FALSE, destroyed |-> FALSE, value |-> elems]
ObjMap(m) == [kind |-> "Map", marked |-> FALSE, destroyed |-> FALSE, value |-> m]
ObjInstance(cn, f) ==
    [kind |-> "Instance", marked |-> FALSE, destroyed |-> FALSE, className |-> cn,
     fields |-> f]
ObjFunction(idx) ==
    [kind |-> "Function", marked |-> FALSE, destroyed |-> FALSE, functionIndex |-> idx]
ObjBoundMethod(recv, idx) ==
    [kind |-> "BoundMethod", marked |-> FALSE, destroyed |-> FALSE, receiver |-> recv,
     methodIndex |-> idx]

EmptyMap == [k \in {} |-> createNIL]
MapPut(m, k, v) == [x \in (DOMAIN m) \cup {k} |-> IF x = k THEN v ELSE m[x]]

\* GC::heap: the objects allocated and not destroyed.
Live(h) == {o \in DOMAIN h : h[o] # NoObject /\ ~h[o].destroyed}

(***************************************************************************)
(* Doubles are modelled as normalised fractions n/m with m >= 0: m = 0     *)
(* holds the values that are no numbers (1/0 is inf, -1/0 is -inf, 0/0 is  *)
(* nan).  Rounding to 53 bits is not modelled.                             *)
(***************************************************************************)
Abs(x) == IF x < 0 THEN -x ELSE x

RECURSIVE Gcd(_, _)
Gcd(a, b) == IF b = 0 THEN a ELSE Gcd(b, a % b)

Frac(n, m) ==
    IF m = 0 THEN [n |-> IF n > 0 THEN 1 ELSE IF n < 0 THEN -1 ELSE 0, m |-> 0]
    ELSE LET s == IF m < 0 THEN -1 ELSE 1
             g == Gcd(Abs(n), Abs(m))
         IN [n |-> (s * n) \div g, m |-> (s * m) \div g]

DoubleOfInt(i) == [n |-> i, m |-> 1]
DNaN == [n |-> 0, m |-> 0]
DIsNaN(x) == x.m = 0 /\ x.n = 0
DIsInf(x) == x.m = 0 /\ x.n # 0

DAdd(x, y) ==
    IF DIsNaN(x) \/ DIsNaN(y) THEN DNaN
    ELSE IF DIsInf(x) /\ DIsInf(y) THEN (IF x.n = y.n THEN x ELSE DNaN)
    ELSE IF DIsInf(x) THEN x
    ELSE IF DIsInf(y) THEN y
    ELSE Frac(x.n * y.m + y.n * x.m, x.m * y.m)

DNeg(x) == [n |-> -x.n, m |-> x.m]
DSub(x, y) == DAdd(x, DNeg(y))

DMul(x, y) ==
    IF DIsNaN(x) \/ DIsNaN(y) THEN DNaN
    ELSE IF x.m = 0 \/ y.m = 0 THEN Frac(x.n * y.n, 0)
    ELSE Frac(x.n * y.n, x.m * y.m)

\* IEEE division: x/0 is an infinity of x's sign, 0/0 is nan.
DDiv(x, y) ==
    IF DIsNaN(x) \/ DIsNaN(y) THEN DNaN
    ELSE IF DIsInf(x) THEN (IF DIsInf(y) THEN DNaN
                            ELSE IF y.n < 0 THEN DNeg(x) ELSE x)
    ELSE IF DIsInf(y) THEN DoubleOfInt(0)
    ELSE Frac(x.n * y.m, x.m * y.n)

\* The integer a double truncates to (toward zero).
DTrunc(x) == IF x.n >= 0 THEN x.n \div x.m ELSE -((-x.n) \div x.m)

\* fmod: the remainder has the sign of x; fmod(x, 0) and fmod(inf, y) are nan.
DMod(x, y) ==
    IF DIsNaN(x) \/ DIsNaN(y) \/ DIsInf(x) \/ y.n = 0 THEN DNaN
    ELSE IF DIsInf(y) THEN x
    ELSE DSub(x, DMul(DoubleOfInt(DTrunc(DDiv(x, y))), y))

DLess(x, y) ==
    IF DIsNaN(x) \/ DIsNaN(y) THEN FALSE
    ELSE IF x.m = 0 /\ y.m = 0 THEN x.n < y.n
    ELSE IF x.m = 0 THEN x.n < 0
    ELSE IF y.m = 0 THEN y.n > 0
    ELSE x.n * y.m < y.n * x.m

DEq(x, y) == ~DIsNaN(x) /\ ~DIsNaN(y) /\ x = y

isTruthy(v) ==
    CASE v.type = "NIL" -> FALSE
      [] v.type = "BOOL" -> v.b
      [] v.type = "INT" -> v.i # 0
      [] v.type = "DOUBLE" -> ~DEq(v.d, DoubleOfInt(0))
      [] v.type = "OBJECT" -> v.object # NULL

(***************************************************************************)
(* std::to_string and Value::toString.                                     *)
(***************************************************************************)
Digit(k) == SubSeq("0123456789", k + 1, k + 1)

RECURSIVE NatToString(_)
NatToString(k) == IF k < 10 THEN Digit(k) ELSE NatToString(k \div 10) \o Digit(k % 10)

IntToString(i) == IF i < 0 THEN "-" \o NatToString(-i) ELSE NatToString(i)

RECURSIVE PadLeft(_, _)
PadLeft(s, w) == IF Len(s) >= w THEN s ELSE PadLeft("0" \o s, w)

\* "%f": six decimals, rounded to nearest.
DoubleToString(x) ==
    IF x.m = 0 THEN (IF x.n > 0 THEN "inf" ELSE IF x.n < 0 THEN "-inf" ELSE "nan")
    ELSE LET scaled == (2 * Abs(x.n) * 1000000 + x.m) \div (2 * x.m)
         IN (IF x.n < 0 THEN "-" ELSE "") \o NatToString(scaled \div 1000000)
            \o "." \o PadLeft(NatToString(scaled % 1000000), 6)

get_representor(o) ==
    CASE o.kind = "String" -> "\"" \o o.value \o "\""
      [] o.kind = "Array" -> "<array>"
      [] o.kind = "Map" -> "<map>"
      [] o.kind = "Instance" -> "<object:" \o o.className \o ">"
      [] o.kind = "Function" -> "<function@" \o NatToString(o.functionIndex) \o ">"
      [] o.kind = "BoundMethod" -> "<bound-method@" \o NatToString(o.methodIndex) \o ">"

\* Value::toString of a value whose object, if any, is live in h.
toString(v, h) ==
    CASE v.type = "NIL" -> "nil"
      [] v.type = "BOOL" -> (IF v.b THEN "true" ELSE "false")
      [] v.type = "INT" -> IntToString(v.i)
      [] v.type = "DOUBLE" -> DoubleToString(v.d)
      [] v.type = "OBJECT" -> (IF v.object = NULL THEN "nilobj"
                               ELSE get_representor(h[v.object]))

(***************************************************************************)
(* The operand stack of run(): push_back, pop_back, peek_back work on the  *)
(* pair (stack_internal, sp_internal), here a record [stk, sp].  An index  *)
(* i of the C++ vector is index i + 1 of the sequence.                     *)
(***************************************************************************)
push_back(S, value) ==
    [stk |-> IF U32Le(Len(S.stk), S.sp) THEN Append(S.stk, value)
             ELSE [S.stk EXCEPT ![S.sp + 1] = value],
     sp |-> U32Add(S.sp, 1)]

\* The stack pop_back leaves, and the value it returns.
pop_back(S) == IF S.sp = 0 THEN S ELSE [S EXCEPT !.sp = U32Sub(S.sp, 1)]
popped(S) == IF S.sp = 0 THEN createNIL ELSE S.stk[S.sp]

peek_back(S, position) ==
    LET idx == S.sp - 1 - position
    IN IF idx < 0 THEN createNIL ELSE S.stk[idx + 1]


(***************************************************************************)
(* VM::push, VM::pop and VM::peek work on the pair (stack, sp) in the same *)
(* form.  push increments sp only where it overwrites a slot.              *)
(***************************************************************************)
push(S, value) ==
    IF U32Le(Len(S.stk), S.sp) THEN [stk |-> Append(S.stk, value), sp |-> S.sp]
    ELSE [stk |-> [S.stk EXCEPT ![S.sp + 1] = value], sp |-> U32Add(S.sp, 1)]

\* The stack pop leaves, and the value it returns.
pop(S) == IF S.sp = 0 THEN S ELSE [S EXCEPT !.sp = U32Sub(S.sp, 1)]
pop_value(S) == IF S.sp = 0 THEN createNIL ELSE S.stk[S.sp]

peek(S, position) ==
    LET idx == S.sp - 1 - position
    IN IF idx < 0 THEN createNIL ELSE S.stk[idx + 1]

RECURSIVE PopN(_, _)
PopN(S, n) == IF n = 0 THEN S ELSE PopN(pop_back(S), n - 1)

RECURSIVE PushAll(_, _)
PushAll(S, vs) == IF vs = <<>> THEN S ELSE PushAll(push_back(S, Head(vs)), Tail(vs))

RECURSIVE PushNils(_, _)
PushNils(S, n) == IF n = 0 THEN S ELSE PushNils(push_back(S, createNIL), n - 1)

\* The values return_count calls of pop_back return, the first popped first.
RECURSIVE PoppedN(_, _)
PoppedN(S, n) == IF n = 0 THEN <<>> ELSE <<popped(S)>> \o PoppedN(pop_back(S), n - 1)

Reverse(q) == [k \in 1..Len(q) |-> q[Len(q) + 1 - k]]

\* do_return without sp_internal = restore: the frame's slots stay.
do_return_stack_no_restore(S, frames, return_count) ==
    PushAll(PopN(S, return_count), Reverse(PoppedN(S, return_count)))

\* VM::do_return on a non-empty frame stack: the operand stack it leaves.
do_return_stack(S, frames, return_count) ==
    LET rets == PoppedN(S, return_count)
        top == frames[Len(frames)]
        restored == [stk |-> S.stk, sp |-> top.localStartsAt]
    IN PushAll(restored, Reverse(rets))

S0 == [stk |-> stack_internal, sp |-> sp_internal]

(***************************************************************************)
(* Immediates.  read_u8 and read_u32 of a frame both return uint8_t: of    *)
(* the little-endian u32 in the code only the low byte reaches the opcode. *)
(***************************************************************************)
U32OfBytes(c, at) ==
    c[at + 1] + 256 * c[at + 2] + 65536 * c[at + 3]
    + 16777216 * (IF c[at + 4] >= 128 THEN c[at + 4] - 256 ELSE c[at + 4])

read_u32_frame(c, at) == U32OfBytes(c, at) % U8

\* The four bytes of the u32 immediates the streams draw: small indices, one
\* index past every table of the model, and values at and above 256.
ImmBytes == {<<k, 0, 0, 0>> : k \in 0..3} \cup {<<0, 1, 0, 0>>}

\* The u8 immediates drawn: argc of CALL and CALL_NATIVE, return_count of RETURN.
ArgcImms == {0, 1, 2}
RetImms == {0, 1, 2}

(***************************************************************************)
(* The collector.  VM::perform_gc hands GC::collect its root walker; the   *)
(* walker marks the slots of VM::stack below VM::sp and the globals.       *)
(***************************************************************************)
Range(f) == {f[x] : x \in DOMAIN f}

\* The Values an object hands to markChildren.
\* markChildren with ObjInstance handing the collector nothing.
markChildren_no_fields(o) ==
    CASE o.kind = "String" -> {}
      [] o.kind = "Array" -> Range(o.value)
      [] o.kind = "Map" -> Range(o.value)
      [] o.kind = "BoundMethod" -> {o.receiver}
      [] OTHER -> {}

markChildren(o) ==
    CASE o.kind = "String" -> {}
      [] o.kind = "Array" -> Range(o.value)
      [] o.kind = "Map" -> Range(o.value)
      [] o.kind = "Instance" -> Range(o.fields)
      [] o.kind = "BoundMethod" -> {o.receiver}
      [] OTHER -> {}

ObjectsOf(values) == {v.object : v \in {w \in values : w.type = "OBJECT"}} \ {NULL}

\* GC::markValue from a set of objects: what ends up marked.
RECURSIVE markAll(_, _, _)
markAll(h, marked, frontier) ==
    LET fresh == (frontier \cap Live(h)) \ marked
    IN IF fresh = {} THEN marked
       ELSE markAll(h, marked \cup fresh,
                    UNION {ObjectsOf(markChildren(h[o])) : o \in fresh})

\* The roots VM::perform_gc's walker enumerates.
root_walker(stk, stkp, glob) == {stk[i] : i \in 1..stkp} \cup Range(glob)

\* GC::sweep: unmarked objects are destroyed, marked ones kept with the flag cleared.
sweep(h, marked) ==
    [o \in DOMAIN h |-> IF o \in marked \/ h[o] = NoObject THEN h[o]
                        ELSE [h[o] EXCEPT !.destroyed = TRUE]]

\* GC::collect: mark from the roots, sweep, raise the threshold.
collect(h, roots) == sweep(h, markAll(h, {}, ObjectsOf(roots)))

perform_gc(h) == collect(h, root_walker(stack, sp, globals))

NoGc == [ran |-> FALSE, before |-> <<>>]
NoLast == [op |-> "none", sp |-> 0, raw |-> <<>>, path |-> "none"]
NoRet == [done |-> FALSE]

(***************************************************************************)
(* The VM when run() is entered: a module is loaded, "len" is registered,  *)
(* and call_function_by_index(main, 0) has pushed the entry frame.         *)
(***************************************************************************)
Function(name, code, argCount, localCount) ==
    [name |-> name, code |-> code, argCount |-> argCount, localCount |-> localCount]

CallFrame(fn, localStartsAt) == [function |-> fn, ip |-> 0, localStartsAt |-> localStartsAt]

\* VM::call_function_by_index: the frame stack it leaves.
call_function_by_index(frames, fns, spNow, fnIndex, argCount) ==
    IF fnIndex >= Len(fns) THEN frames
    ELSE Append(frames, CallFrame(fnIndex, spNow))

EntryLog == [sp |-> 0, argc |-> 0, stk |-> <<>>, depth |-> 0, byCall |-> FALSE]

NoLoader == [state |-> "idle"]

\* native_functions_registry[name] = fn
NoNatives == [n \in {} |-> ""]
register_native(registry, name, fn) ==
    [n \in (DOMAIN registry) \cup {name} |-> IF n = name THEN fn ELSE registry[n]]

\* The module: one function, main, and the constants 1, "main", "len".
InitModule(lc) ==
    /\ global_constants = <<createINT(1), createOBJECT(1), createOBJECT(2)>>
    /\ heap = [o \in ObjIds |-> IF o = 1 THEN ObjString("main")
                                ELSE IF o = 2 THEN ObjString("len") ELSE NoObject]
    /\ functions = <<Function("main", <<>>, 0, lc)>>
    /\ function_index_by_name = [n \in {"main"} |-> 0]

\* The fields of a VM about to run main, but for its operand stack and its
\* natives.
InitCore ==
    /\ stack = <<>>
    /\ sp = 0
    /\ globals = EmptyMap
    /\ native_log = <<>>
    /\ cerr = <<>>
    /\ ffi = [v \in VMs |-> NoLibs]
    /\ ffi_log = <<>>
    /\ memThresholdForNextGcCall = GcThreshold
    /\ call_frames = call_function_by_index(<<>>, functions, 0, 0, 0)
    /\ call_log = <<EntryLog>>
    /\ pc = "loop"
    /\ ub = FALSE
    /\ last = NoLast
    /\ ret_log = NoRet
    /\ gc_log = NoGc
    /\ loader = NoLoader

\* The host has registered len.
InitFields ==
    /\ InitCore
    /\ native_functions_registry = register_native(NoNatives, "len", "native_len")
    /\ register_log = <<[name |-> "len", fn |-> "native_len"]>>

InitRun ==
    /\ stack_internal = <<>>
    /\ sp_internal = 0
    /\ trail = <<>>
    /\ InitFields

Init == (\E lc \in 0..2 : InitModule(lc)) /\ InitRun /\ code_left = MaxCode

(***************************************************************************)
(* VM::run.  One iteration of the loop is two steps of the model: the loop *)
(* test with collect_garbage_if_needed, then the fetch and the opcode.     *)
(***************************************************************************)
moduleVars == <<functions, function_index_by_name, global_constants, loader,
                native_functions_registry, register_log, stack, sp>>

\* The test of collect_garbage_if_needed with >= for >.
collect_garbage_at_threshold ==
    /\ pc = "loop"
    /\ call_frames # <<>>
    /\ IF Cardinality(Live(heap)) >= memThresholdForNextGcCall
       THEN /\ heap' = perform_gc(heap)
            /\ memThresholdForNextGcCall' =
                   Max(memThresholdForNextGcCall, 2 * Cardinality(Live(heap')))
            /\ gc_log' = [ran |-> TRUE, before |-> heap]
       ELSE /\ UNCHANGED <<heap, memThresholdForNextGcCall>>
            /\ gc_log' = NoGc
    /\ pc' = "fetch"
    /\ UNCHANGED <<stack_internal, sp_internal, call_frames, globals, ub, code_left,
                   last, trail, native_log, cerr, ffi, ffi_log, call_log, ret_log>>
    /\ UNCHANGED moduleVars

collect_garbage_if_needed ==
    /\ pc = "loop"
    /\ call_frames # <<>>
    /\ IF Cardinality(Live(heap)) > memThresholdForNextGcCall
       THEN /\ heap' = perform_gc(heap)
            /\ memThresholdForNextGcCall' =
                   Max(memThresholdForNextGcCall, 2 * Cardinality(Live(heap')))
            /\ gc_log' = [ran |-> TRUE, before |-> heap]
       ELSE /\ UNCHANGED <<heap, memThresholdForNextGcCall>>
            /\ gc_log' = NoGc
    /\ pc' = "fetch"
    /\ UNCHANGED <<stack_internal, sp_internal, call_frames, globals, ub, code_left,
                   last, trail, native_log, cerr, ffi, ffi_log, call_log, ret_log>>
    /\ UNCHANGED moduleVars

\* while (!call_frames.empty()) fails: run() returns.
run_exit ==
    /\ pc = "loop"
    /\ call_frames = <<>>
    /\ pc' = "done"
    /\ UNCHANGED <<stack_internal, sp_internal, call_frames, globals, heap,
                   memThresholdForNextGcCall, ub, code_left, last, trail, native_log, cerr, ffi, ffi_log,
                   call_log, ret_log, gc_log>>
    /\ UNCHANGED moduleVars

Fetching == pc = "fetch" /\ call_frames # <<>> /\ code_left > 0

\* The trail of a run: one entry per instruction, with the stack it met.  A
\* run that starts with the empty trail keeps none; a run that starts with
\* TrailStart keeps all of it.
Executed(op, raw, path) ==
    [op |-> op, raw |-> raw, path |-> path, stk |-> stack_internal, sp |-> sp_internal]

TrailStart == <<[op |-> "none", raw |-> <<>>, path |-> "none", stk |-> <<>>, sp |-> 0]>>

Trail(op, raw, path) ==
    IF trail = <<>> THEN trail ELSE Append(trail, Executed(op, raw, path))

\* The lines an opcode of run() writes to std::cerr on the path it takes: the
\* three failure paths of CALL_NATIVE, the failure paths of CALL_FFI and the
\* default case write one line, no other path of the opcodes modelled writes
\* any.
Diagnostic(op, path) ==
    CASE op = "CALL_NATIVE" /\ path = "bad index" -> <<"CALL_NATIVE: bad nameIdx">>
      [] op = "CALL_NATIVE" /\ path = "name not string" -> <<"CALL_NATIVE: name not string">>
      [] op = "CALL_NATIVE" /\ path = "not found" -> <<"CALL_NATIVE: not found">>
      [] op = "CALL_FFI" /\ path = "bad index" -> <<"CALL_FFI: bad idx">>
      [] op = "CALL_FFI" /\ path = "name not string" -> <<"CALL_FFI: name types">>
      [] op = "CALL_FFI" /\ path = "dlopen failed" -> <<"[FFI] dlopen failed">>
      [] op = "CALL_FFI" /\ path = "symbol missing" -> <<"CALL_FFI: symbol missing">>
      [] op = "CALL_FFI" /\ path = "unsupported" -> <<"CALL_FFI: unsupported signature">>
      [] op = "UNKNOWN" -> <<"Unimplemented opcode">>
      [] OTHER -> <<>>

\* What every completed instruction leaves: the stack S, and the loop goes on.
\* An instruction that completes, STRING_CONCAT entering its result in the
\* constant pool as add_global_string_constant does.
CompletesWith_adding_constant(op, raw, path, S, libs, calls) ==
    /\ ffi' = libs
    /\ ffi_log' = calls
    /\ stack_internal' = S.stk
    /\ sp_internal' = S.sp
    /\ pc' = "loop"
    /\ code_left' = code_left - 1
    /\ last' = [op |-> op, sp |-> sp_internal, raw |-> raw, path |-> path]
    /\ trail' = Trail(op, raw, path)
    /\ cerr' = Diagnostic(op, path)
    /\ gc_log' = NoGc
    /\ global_constants' = IF op = "STRING_CONCAT"
                           THEN Append(global_constants, S.stk[S.sp])
                           ELSE global_constants
    /\ UNCHANGED <<functions, function_index_by_name, loader,
                   native_functions_registry, register_log, stack, sp>>
    /\ UNCHANGED memThresholdForNextGcCall

CompletesWith(op, raw, path, S, libs, calls) ==
    /\ ffi' = libs
    /\ ffi_log' = calls
    /\ stack_internal' = S.stk
    /\ sp_internal' = S.sp
    /\ pc' = "loop"
    /\ code_left' = code_left - 1
    /\ last' = [op |-> op, sp |-> sp_internal, raw |-> raw, path |-> path]
    /\ trail' = Trail(op, raw, path)
    /\ cerr' = Diagnostic(op, path)
    /\ gc_log' = NoGc
    /\ UNCHANGED moduleVars
    /\ UNCHANGED memThresholdForNextGcCall

\* An instruction other than CALL_FFI: the libraries stay as they are.
Completes(op, raw, path, S) == CompletesWith(op, raw, path, S, ffi, ffi_log)

\* An instruction whose operation is undefined and ends the process.
Crashes(op, raw, S) ==
    /\ stack_internal' = S.stk
    /\ sp_internal' = S.sp
    /\ pc' = "crashed"
    /\ ub' = TRUE
    /\ code_left' = code_left - 1
    /\ last' = [op |-> op, sp |-> sp_internal, raw |-> raw, path |-> "crash"]
    /\ trail' = Trail(op, raw, "crash")
    /\ cerr' = <<>>
    /\ UNCHANGED <<ffi, ffi_log>>
    /\ gc_log' = NoGc
    /\ UNCHANGED moduleVars
    /\ UNCHANGED <<memThresholdForNextGcCall, call_frames, call_log, ret_log, globals, heap>>

\* A native that calls exit: the process ends, nothing undefined has happened.
Exits(op, raw, S) ==
    /\ stack_internal' = S.stk
    /\ sp_internal' = S.sp
    /\ pc' = "exited"
    /\ ub' = FALSE
    /\ code_left' = code_left - 1
    /\ last' = [op |-> op, sp |-> sp_internal, raw |-> raw, path |-> "exit"]
    /\ trail' = Trail(op, raw, "exit")
    /\ cerr' = <<>>
    /\ UNCHANGED <<ffi, ffi_log>>
    /\ gc_log' = NoGc
    /\ UNCHANGED moduleVars
    /\ UNCHANGED <<memThresholdForNextGcCall, call_frames, call_log, ret_log, globals, heap>>

\* An instruction that neither pushes nor pops a frame.
SameFrames ==
    /\ UNCHANGED <<call_frames, call_log>>
    /\ ret_log' = NoRet

\* pop_back with sp_internal beyond the vector reads outside it.
PopsInside == U32Le(sp_internal, Len(stack_internal))

\* do_return(return_count) with its bookkeeping of the CALL it matches.
do_return(op, raw, return_count) ==
    /\ Completes(op, raw, "return", do_return_stack(S0, call_frames, return_count))
    /\ call_frames' = SubSeq(call_frames, 1, Len(call_frames) - 1)
    /\ call_log' = SubSeq(call_log, 1, Len(call_log) - 1)
    /\ ret_log' = [done |-> TRUE, call |-> call_log[Len(call_log)],
                   return_count |-> return_count,
                   stk |-> stack_internal, sp |-> sp_internal]
    /\ UNCHANGED <<globals, heap>>
    /\ ub' = FALSE
    /\ native_log' = <<>>

\* if (frame.ip >= func->code.size()) { do_return(0); continue; }
end_of_code ==
    /\ Fetching
    /\ do_return("END", <<>>, 0)

OP_PUSH_CONST ==
    /\ Fetching
    /\ \E b \in ImmBytes :
         LET idx == read_u32_frame(b, 0)
         IN IF idx >= Len(global_constants)
            THEN Completes("PUSH_CONST", <<U32OfBytes(b, 0)>>, "bad index",
                           push_back(S0, createNIL))
            ELSE Completes("PUSH_CONST", <<U32OfBytes(b, 0)>>, "ok",
                           push_back(S0, global_constants[idx + 1]))
    /\ SameFrames
    /\ UNCHANGED <<globals, heap>>
    /\ ub' = FALSE
    /\ native_log' = <<>>

OP_POP ==
    /\ Fetching
    /\ PopsInside
    /\ Completes("POP", <<>>, "ok", pop_back(S0))
    /\ SameFrames
    /\ UNCHANGED <<globals, heap>>
    /\ ub' = FALSE
    /\ native_log' = <<>>

OP_CALL ==
    /\ Fetching
    /\ \E b \in ImmBytes, argc \in ArgcImms :
         LET fnIdx == read_u32_frame(b, 0)
             raw == <<U32OfBytes(b, 0), argc>>
         IN IF fnIdx >= Len(functions)
            THEN /\ PopsInside
                 /\ Completes("CALL", raw, "bad index",
                              push_back(PopN(S0, argc), createNIL))
                 /\ UNCHANGED <<call_frames, call_log>>
            ELSE LET callee == functions[fnIdx + 1]
                     additionalLocals == IF callee.localCount > argc
                                         THEN callee.localCount - argc ELSE 0
                 IN /\ Len(call_frames) < MaxFrames
                    /\ Completes("CALL", raw, "ok", PushNils(S0, additionalLocals))
                    /\ call_frames' = Append(call_frames,
                                             CallFrame(fnIdx, U32Sub(sp_internal, argc)))
                    /\ call_log' = Append(call_log,
                                          [sp |-> sp_internal, argc |-> argc,
                                           stk |-> stack_internal,
                                           depth |-> Len(call_frames), byCall |-> TRUE])
    /\ ret_log' = NoRet
    /\ UNCHANGED <<globals, heap>>
    /\ ub' = FALSE
    /\ native_log' = <<>>

OP_RETURN ==
    /\ Fetching
    /\ PopsInside
    /\ \E retCount \in RetImms : do_return("RETURN", <<retCount>>, retCount)

\* The unknown opcode skipped with break instead of return.
OP_default_break ==
    /\ Fetching
    /\ pc' = "loop"
    /\ code_left' = code_left - 1
    /\ last' = [op |-> "UNKNOWN", sp |-> sp_internal, raw |-> <<>>, path |-> "fatal"]
    /\ trail' = Trail("UNKNOWN", <<>>, "fatal")
    /\ cerr' = Diagnostic("UNKNOWN", "fatal")
    /\ UNCHANGED <<ffi, ffi_log>>
    /\ gc_log' = NoGc
    /\ ub' = FALSE
    /\ native_log' = <<>>
    /\ UNCHANGED <<stack_internal, sp_internal, call_frames, call_log, ret_log, globals,
                   heap, memThresholdForNextGcCall>>
    /\ UNCHANGED moduleVars

\* default: the opcode is not in the table; run() returns.
OP_default ==
    /\ Fetching
    /\ pc' = "halted"
    /\ code_left' = code_left - 1
    /\ last' = [op |-> "UNKNOWN", sp |-> sp_internal, raw |-> <<>>, path |-> "fatal"]
    /\ trail' = Trail("UNKNOWN", <<>>, "fatal")
    /\ cerr' = Diagnostic("UNKNOWN", "fatal")
    /\ UNCHANGED <<ffi, ffi_log>>
    /\ gc_log' = NoGc
    /\ ub' = FALSE
    /\ native_log' = <<>>
    /\ UNCHANGED <<stack_internal, sp_internal, call_frames, call_log, ret_log, globals,
                   heap, memThresholdForNextGcCall>>
    /\ UNCHANGED moduleVars

(***************************************************************************)
(* Objects behind Values.  A pointer is an object id; the object it names  *)
(* may have been destroyed by a sweep, and then the pointer dangles.       *)
(***************************************************************************)
IsObj(v) == v.type = "OBJECT" /\ v.object # NULL
Dangling(v) == IsObj(v) /\ heap[v.object].destroyed

\* dynamic_cast<T*>(v.current_value.object) succeeds.
IsKind(v, kind) == IsObj(v) /\ heap[v.object].kind = kind

\* GC::allocNewObject: the addresses the allocator can hand out, a fresh one
\* or one whose object was destroyed.
AllocIds(h) ==
    LET fresh == {o \in DOMAIN h : h[o] = NoObject}
    IN {o \in DOMAIN h : h[o] # NoObject /\ h[o].destroyed}
       \cup (IF fresh = {} THEN {} ELSE {CHOOSE o \in fresh : \A p \in fresh : o <= p})

allocNewObject(h, id, obj) == [h EXCEPT ![id] = obj]

(***************************************************************************)
(* What one opcode comes to.  ub tells whether the opcode executed an      *)
(* undefined operation: "none"; "crash", the process ends; "either", it    *)
(* ends or goes on as the record says; "benign", it goes on.               *)
(***************************************************************************)
Res(ubk, path, S) ==
    [ub |-> ubk, path |-> path, S |-> S, heap |-> heap, globals |-> globals,
     frames |-> <<>>, invoked |-> <<>>]

UbJoin(a, b) ==
    IF "crash" \in {a, b} THEN "crash"
    ELSE IF "either" \in {a, b} THEN "either"
    ELSE IF "benign" \in {a, b} THEN "benign" ELSE "none"

UbOf(v) == IF Dangling(v) THEN "either" ELSE "none"

\* dynamic_cast<ObjString*>(global_constants[idx].current_value.object) for
\* idx inside the pool.  The type tag is not read: for an Int, Bool or Double
\* constant the pointer member of the union is not the active one.
ConstName(idx) ==
    LET c == global_constants[idx + 1]
    IN [ub |-> IF c.type \in {"INT", "BOOL", "DOUBLE"} \/ Dangling(c)
               THEN "either" ELSE "none",
        isString |-> IsKind(c, "String"),
        value |-> IF IsKind(c, "String") THEN heap[c.object].value ELSE ""]

\* Value::toString as the opcodes call it, with the state of the call.
ToStr(v) ==
    [ub |-> UbOf(v), value |-> toString(v, heap)]

\* operand.type == OBJECT && object ? dynamic_cast<ObjString*>(object)->value
\*                                  : operand.toString()
StringOperand(v) ==
    IF IsObj(v)
    THEN IF IsKind(v, "String") THEN [ub |-> UbOf(v), value |-> heap[v.object].value]
         ELSE [ub |-> "crash", value |-> ""]
    ELSE [ub |-> "none", value |-> toString(v, heap)]

\* int idx = INT ? i : DOUBLE ? static_cast<int>(d) : 0
IndexOperand(v) ==
    CASE v.type = "INT" -> [ub |-> "none", value |-> v.i]
      [] v.type = "DOUBLE" ->
            IF v.d.m = 0 THEN [ub |-> "benign", value |-> -2147483647 - 1]
            ELSE [ub |-> "none", value |-> DTrunc(v.d)]
      [] OTHER -> [ub |-> "none", value |-> 0]

NEW_OBJECT(nameIdx, id) ==
    IF nameIdx >= Len(global_constants)
    THEN Res("none", "bad index", push_back(S0, createNIL))
    ELSE LET on == ConstName(nameIdx)
             className == IF on.isString THEN on.value ELSE "Object"
         IN [Res(on.ub, "ok", push_back(S0, createOBJECT(id)))
                EXCEPT !.heap = allocNewObject(heap, id, ObjInstance(className, EmptyMap))]

NEW_ARRAY(id) ==
    [Res("none", "ok", push_back(S0, createOBJECT(id)))
        EXCEPT !.heap = allocNewObject(heap, id, ObjArray(<<>>))]

NEW_MAP(id) ==
    [Res("none", "ok", push_back(S0, createOBJECT(id)))
        EXCEPT !.heap = allocNewObject(heap, id, ObjMap(EmptyMap))]

IS_INSTANCE(typeIdx) ==
    LET objVal == popped(S0)
        S1 == pop_back(S0)
        no(u, path) == Res(u, path, push_back(S1, createBOOL(FALSE)))
    IN IF typeIdx >= Len(global_constants) THEN no("none", "bad index")
       ELSE LET typeName == ConstName(typeIdx)
            IN IF ~typeName.isString THEN no(typeName.ub, "name not string")
               ELSE IF ~IsObj(objVal) THEN no(typeName.ub, "not object")
               ELSE LET u == UbJoin(typeName.ub, UbOf(objVal))
                    IN IF ~IsKind(objVal, "Instance") THEN no(u, "not instance")
                       ELSE Res(u, "ok",
                                push_back(S1, createBOOL(heap[objVal.object].className
                                                         = typeName.value)))

GET_FIELD(nameIdx) ==
    LET objv == popped(S0)
        S1 == pop_back(S0)
        nil(u, path) == Res(u, path, push_back(S1, createNIL))
    IN IF ~IsObj(objv) THEN nil("none", "not object")
       ELSE IF nameIdx >= Len(global_constants) THEN nil("none", "bad index")
       ELSE LET on == ConstName(nameIdx)
                u == UbJoin(on.ub, UbOf(objv))
            IN IF ~on.isString THEN nil(on.ub, "name not string")
               ELSE IF ~IsKind(objv, "Instance") THEN nil(u, "not instance")
               ELSE IF on.value \notin DOMAIN heap[objv.object].fields
               THEN nil(u, "missing")
               ELSE Res(u, "ok", push_back(S1, heap[objv.object].fields[on.value]))

\* global_constants[nameIdx] is read without a test of nameIdx: past the end
\* of the pool the read is outside the vector.
SET_FIELD(nameIdx) ==
    LET val == popped(S0)
        S1 == pop_back(S0)
        objv == popped(S1)
        S2 == pop_back(S1)
    IN IF ~IsObj(objv) THEN Res("none", "not object", S2)
       ELSE IF nameIdx >= Len(global_constants) THEN Res("either", "outside pool", S2)
       ELSE LET on == ConstName(nameIdx)
                u == UbJoin(on.ub, UbOf(objv))
            IN IF ~on.isString THEN Res(on.ub, "name not string", S2)
               ELSE IF ~IsKind(objv, "Instance") THEN Res(u, "not instance", S2)
               ELSE [Res(u, "ok", S2) EXCEPT
                        !.heap = [heap EXCEPT ![objv.object].fields =
                                                  MapPut(@, on.value, val)]]

ARRAY_GET ==
    LET idxv == popped(S0)
        S1 == pop_back(S0)
        arrv == popped(S1)
        S2 == pop_back(S1)
        nil(u, path) == Res(u, path, push_back(S2, createNIL))
    IN IF ~IsObj(arrv) THEN nil("none", "not object")
       ELSE IF ~IsKind(arrv, "Array") THEN nil(UbOf(arrv), "not array")
       ELSE LET idx == IndexOperand(idxv)
                u == UbJoin(idx.ub, UbOf(arrv))
                oa == heap[arrv.object].value
            IN IF idx.value < 0 \/ idx.value >= Len(oa) THEN nil(u, "out of range")
               ELSE Res(u, "ok", push_back(S2, oa[idx.value + 1]))

\* ARRAY_SET that stores within the array only: no resize.
ARRAY_SET_in_range ==
    LET val == popped(S0)
        S1 == pop_back(S0)
        idxv == popped(S1)
        S2 == pop_back(S1)
        arrv == popped(S2)
        S3 == pop_back(S2)
    IN IF ~IsObj(arrv) THEN Res("none", "not object", S3)
       ELSE IF ~IsKind(arrv, "Array") THEN Res(UbOf(arrv), "not array", S3)
       ELSE LET idx == IndexOperand(idxv)
                u == UbJoin(idx.ub, UbOf(arrv))
                oa == heap[arrv.object].value
            IN IF idx.value < 0 THEN Res(u, "negative index", S3)
               ELSE IF idx.value >= Len(oa) THEN Res(u, "ok", S3)
               ELSE [Res(u, "ok", S3) EXCEPT
                        !.heap = [heap EXCEPT ![arrv.object].value =
                                                  [oa EXCEPT ![idx.value + 1] = val]]]

ARRAY_SET ==
    LET val == popped(S0)
        S1 == pop_back(S0)
        idxv == popped(S1)
        S2 == pop_back(S1)
        arrv == popped(S2)
        S3 == pop_back(S2)
    IN IF ~IsObj(arrv) THEN Res("none", "not object", S3)
       ELSE IF ~IsKind(arrv, "Array") THEN Res(UbOf(arrv), "not array", S3)
       ELSE LET idx == IndexOperand(idxv)
                u == UbJoin(idx.ub, UbOf(arrv))
                oa == heap[arrv.object].value
                resized == [k \in 1..Max(Len(oa), idx.value + 1) |->
                               IF k <= Len(oa) THEN oa[k] ELSE createNIL]
            IN IF idx.value < 0 THEN Res(u, "negative index", S3)
               ELSE [Res(u, "ok", S3) EXCEPT
                        !.heap = [heap EXCEPT ![arrv.object].value =
                                                  [resized EXCEPT ![idx.value + 1] = val]]]

\* The assignment replaces the whole table by the one entry.
MAP_SET_only_entry ==
    LET val == popped(S0)
        S1 == pop_back(S0)
        keyv == popped(S1)
        S2 == pop_back(S1)
        mapv == popped(S2)
        S3 == pop_back(S2)
    IN IF ~IsObj(mapv) THEN Res("none", "not object", S3)
       ELSE IF ~IsKind(mapv, "Map") THEN Res(UbOf(mapv), "not map", S3)
       ELSE LET key == ToStr(keyv)
            IN [Res(UbJoin(key.ub, UbOf(mapv)), "ok", S3) EXCEPT
                   !.heap = [heap EXCEPT ![mapv.object].value =
                                             MapPut(EmptyMap, key.value, val)]]

MAP_SET ==
    LET val == popped(S0)
        S1 == pop_back(S0)
        keyv == popped(S1)
        S2 == pop_back(S1)
        mapv == popped(S2)
        S3 == pop_back(S2)
    IN IF ~IsObj(mapv) THEN Res("none", "not object", S3)
       ELSE IF ~IsKind(mapv, "Map") THEN Res(UbOf(mapv), "not map", S3)
       ELSE LET key == ToStr(keyv)
            IN [Res(UbJoin(key.ub, UbOf(mapv)), "ok", S3) EXCEPT
                   !.heap = [heap EXCEPT ![mapv.object].value = MapPut(@, key.value, val)]]

MAP_GET ==
    LET keyv == popped(S0)
        S1 == pop_back(S0)
        mapv == popped(S1)
        S2 == pop_back(S1)
        nil(u, path) == Res(u, path, push_back(S2, createNIL))
    IN IF ~IsObj(mapv) THEN nil("none", "not object")
       ELSE IF ~IsKind(mapv, "Map") THEN nil(UbOf(mapv), "not map")
       ELSE LET key == ToStr(keyv)
                u == UbJoin(key.ub, UbOf(mapv))
                om == heap[mapv.object].value
            IN IF key.value \notin DOMAIN om THEN nil(u, "missing")
               ELSE Res(u, "ok", push_back(S2, om[key.value]))

STRING_CONCAT(id) ==
    LET vb == popped(S0)
        S1 == pop_back(S0)
        va == popped(S1)
        S2 == pop_back(S1)
        sa == StringOperand(va)
        sb == StringOperand(vb)
    IN [Res(UbJoin(sa.ub, sb.ub), "ok", push_back(S2, createOBJECT(id))) EXCEPT
           !.heap = allocNewObject(heap, id, ObjString(sa.value \o sb.value))]

STRING_LENGTH ==
    LET s == popped(S0)
        S1 == pop_back(S0)
    IN IF IsKind(s, "String")
       THEN Res(UbOf(s), "ok", push_back(S1, createINT(Len(heap[s.object].value))))
       ELSE Res(UbOf(s), "not string", push_back(S1, createINT(0)))

STRING_EQ ==
    LET b == popped(S0)
        S1 == pop_back(S0)
        a == popped(S1)
        S2 == pop_back(S1)
        sa == StringOperand(a)
        sb == StringOperand(b)
    IN Res(UbJoin(sa.ub, sb.ub), "ok", push_back(S2, createBOOL(sa.value = sb.value)))

LOAD_GLOBAL(nameIdx) ==
    IF nameIdx >= Len(global_constants)
    THEN Res("none", "bad index", push_back(S0, createNIL))
    ELSE LET on == ConstName(nameIdx)
         IN IF ~on.isString THEN Res(on.ub, "name not string", push_back(S0, createNIL))
            ELSE IF on.value \notin DOMAIN globals
            THEN Res(on.ub, "missing", push_back(S0, createNIL))
            ELSE Res(on.ub, "ok", push_back(S0, globals[on.value]))

STORE_GLOBAL(nameIdx) ==
    LET val == popped(S0)
        S1 == pop_back(S0)
    IN IF nameIdx >= Len(global_constants) THEN Res("none", "bad index", S1)
       ELSE LET on == ConstName(nameIdx)
            IN IF ~on.isString THEN Res(on.ub, "name not string", S1)
               ELSE [Res(on.ub, "ok", S1) EXCEPT
                        !.globals = MapPut(globals, on.value, val)]

\* ADD, SUB, MUL, DIV, MOD: both operands as doubles, an Int result unless an
\* operand is a Double or the opcode is DIV.
ArithOps == {"ADD", "SUB", "MUL", "DIV", "MOD"}

AsDouble(v) ==
    CASE v.type = "DOUBLE" -> v.d
      [] v.type = "INT" -> DoubleOfInt(v.i)
      [] OTHER -> DoubleOfInt(0)

\* The arithmetic with an Int quotient for DIV on two Ints.
ARITH_int_quotient(op) ==
    LET vb == popped(S0)
        S1 == pop_back(S0)
        va == popped(S1)
        S2 == pop_back(S1)
        da == AsDouble(va)
        db == AsDouble(vb)
        res == CASE op = "ADD" -> DAdd(da, db)
                 [] op = "SUB" -> DSub(da, db)
                 [] op = "MUL" -> DMul(da, db)
                 [] op = "DIV" -> DDiv(da, db)
                 [] op = "MOD" -> DMod(da, db)
    IN IF va.type # "DOUBLE" /\ vb.type # "DOUBLE"
       THEN IF res.m = 0
            THEN Res("benign", "int", push_back(S2, createINT(0)))
            ELSE Res("none", "int", push_back(S2, createINT(DTrunc(res))))
       ELSE Res("none", "double", push_back(S2, createDOUBLE(res)))

(***************************************************************************)
(* The Int results of ADD, SUB and MUL.  The operands are ints (createINT  *)
(* takes a const int), so their sum and difference are exact in double and *)
(* in int64_t; their product is rounded to the 53 bits of a double.        *)
(* createINT(const int) then keeps the low 32 bits of the int64_t.         *)
(***************************************************************************)
Pow2(n) == <<1, 2, 4, 8, 16, 32, 64, 128, 256, 512, 1024>>[n + 1]

\* The four bytes of |v|, least significant first.
Magnitude(v) ==
    IF v = -2147483647 - 1 THEN <<0, 0, 0, 128>>
    ELSE LET m == IF v < 0 THEN -v ELSE v
         IN <<m % 256, (m \div 256) % 256, (m \div 65536) % 256, (m \div 16777216) % 256>>

RECURSIVE Carried(_, _)
Carried(cols, carry) ==
    IF cols = <<>> THEN <<>>
    ELSE <<(Head(cols) + carry) % 256>> \o Carried(Tail(cols), (Head(cols) + carry) \div 256)

\* The eight bytes of the product of two magnitudes.
Product(x, y) ==
    LET term(i, k) == IF k + 2 - i \in 1..4 THEN x[i] * y[k + 2 - i] ELSE 0
    IN Carried([k \in 1..8 |-> term(1, k - 1) + term(2, k - 1) + term(3, k - 1)
                                   + term(4, k - 1)], 0)

\* The number of significant bits of a magnitude.
BitLen(bytes) ==
    LET used == {k \in DOMAIN bytes : bytes[k] # 0}
    IN IF used = {} THEN 0
       ELSE LET top == CHOOSE k \in used : \A j \in used : j <= k
            IN 8 * (top - 1) + (CHOOSE n \in 1..8 : Pow2(n - 1) <= bytes[top]
                                                     /\ bytes[top] < Pow2(n))

\* (int) (int64_t) ((double) a * (double) b): the product, rounded to nearest
\* with ties to even where it has more than 53 bits, and then its low 32 bits.
int_of_product(a, b) ==
    LET p == Product(Magnitude(a), Magnitude(b))
        k == BitLen(p) - 53
        low == U32OfBytes(p, 0)
        low16 == p[1] + 256 * p[2]
        r == low16 % Pow2(k)
        up == r > Pow2(k - 1) \/ (r = Pow2(k - 1) /\ (low16 \div Pow2(k)) % 2 = 1)
        mag == IF k <= 0 THEN low
               ELSE U32Add(U32Sub(low, r), IF up THEN Pow2(k) ELSE 0)
    IN IF (a < 0) # (b < 0) THEN U32Neg(mag) ELSE mag

int_result(op, a, b) ==
    CASE op = "ADD" -> U32Add(a, b)
      [] op = "SUB" -> U32Sub(a, b)
      [] op = "MUL" -> int_of_product(a, b)

ARITH(op) ==
    LET vb == popped(S0)
        S1 == pop_back(S0)
        va == popped(S1)
        S2 == pop_back(S1)
        da == AsDouble(va)
        db == AsDouble(vb)
        res == CASE op = "ADD" -> DAdd(da, db)
                 [] op = "SUB" -> DSub(da, db)
                 [] op = "MUL" -> DMul(da, db)
                 [] op = "DIV" -> DDiv(da, db)
                 [] op = "MOD" -> DMod(da, db)
        ia == IF va.type = "INT" THEN va.i ELSE 0
        ib == IF vb.type = "INT" THEN vb.i ELSE 0
    IN IF va.type # "DOUBLE" /\ vb.type # "DOUBLE" /\ op # "DIV"
       THEN IF op # "MOD"
            THEN Res("none", "int", push_back(S2, createINT(int_result(op, ia, ib))))
            ELSE IF res.m = 0
                 THEN Res("benign", "int", push_back(S2, createINT(0)))
                 ELSE Res("none", "int", push_back(S2, createINT(DTrunc(res))))
       ELSE Res("none", "double", push_back(S2, createDOUBLE(res)))

(***************************************************************************)
(* OP_EQ .. OP_GTE.  Two numbers are compared as doubles, two Strings by   *)
(* their contents, two other objects by address (EQ and NEQ only), and any *)
(* other pair by type and display string (EQ and NEQ only).                *)
(***************************************************************************)
CompareOps == {"EQ", "NEQ", "LT", "GT", "LTE", "GTE"}

\* The chars of a std::string, for the strings that get compared.
CharsOf(s) ==
    CASE s = "" -> <<>>
      [] s = "a" -> <<97>>
      [] s = "ab" -> <<97, 98>>
      [] s = "b" -> <<98>>
      [] s = "B" -> <<66>>

\* std::string::compare: the first differing char decides, then the lengths.
RECURSIVE string_compare(_, _)
string_compare(x, y) ==
    IF x = <<>> \/ y = <<>> THEN Len(x) - Len(y)
    ELSE IF Head(x) # Head(y) THEN Head(x) - Head(y)
    ELSE string_compare(Tail(x), Tail(y))

IsNumber(v) == v.type \in {"INT", "DOUBLE"}

\* Strings too are compared by address.
compare_by_identity(op, va, vb) ==
    IF IsNumber(va) /\ IsNumber(vb)
    THEN LET da == AsDouble(va)
             db == AsDouble(vb)
         IN CASE op = "EQ" -> DEq(da, db)
              [] op = "NEQ" -> ~DEq(da, db)
              [] op = "LT" -> DLess(da, db)
              [] op = "GT" -> DLess(db, da)
              [] op = "LTE" -> DLess(da, db) \/ DEq(da, db)
              [] op = "GTE" -> DLess(db, da) \/ DEq(da, db)
    ELSE IF va.type = "OBJECT" /\ vb.type = "OBJECT"
    THEN CASE op = "EQ" -> va.object = vb.object
           [] op = "NEQ" -> va.object # vb.object
           [] OTHER -> FALSE
    ELSE LET same == va.type = vb.type /\ toString(va, heap) = toString(vb, heap)
         IN CASE op = "EQ" -> same
              [] op = "NEQ" -> ~same
              [] OTHER -> FALSE

\* bool res of the comparison opcodes.
compare(op, va, vb) ==
    IF IsNumber(va) /\ IsNumber(vb)
    THEN LET da == AsDouble(va)
             db == AsDouble(vb)
         IN CASE op = "EQ" -> DEq(da, db)
              [] op = "NEQ" -> ~DEq(da, db)
              [] op = "LT" -> DLess(da, db)
              [] op = "GT" -> DLess(db, da)
              [] op = "LTE" -> DLess(da, db) \/ DEq(da, db)
              [] op = "GTE" -> DLess(db, da) \/ DEq(da, db)
    ELSE IF va.type = "OBJECT" /\ vb.type = "OBJECT"
    THEN IF IsKind(va, "String") /\ IsKind(vb, "String")
         THEN LET c == string_compare(CharsOf(heap[va.object].value),
                                      CharsOf(heap[vb.object].value))
              IN CASE op = "EQ" -> c = 0
                   [] op = "NEQ" -> c # 0
                   [] op = "LT" -> c < 0
                   [] op = "GT" -> c > 0
                   [] op = "LTE" -> c <= 0
                   [] op = "GTE" -> c >= 0
         ELSE CASE op = "EQ" -> va.object = vb.object
                [] op = "NEQ" -> va.object # vb.object
                [] OTHER -> FALSE
    ELSE LET same == va.type = vb.type /\ toString(va, heap) = toString(vb, heap)
         IN CASE op = "EQ" -> same
              [] op = "NEQ" -> ~same
              [] OTHER -> FALSE

COMPARE(op) ==
    LET vb == popped(S0)
        S1 == pop_back(S0)
        va == popped(S1)
        S2 == pop_back(S1)
        path == IF IsNumber(va) /\ IsNumber(vb) THEN "numeric"
                ELSE IF va.type = "OBJECT" /\ vb.type = "OBJECT"
                THEN IF IsKind(va, "String") /\ IsKind(vb, "String")
                     THEN "string" ELSE "identity"
                ELSE "value"
    IN Res(UbJoin(UbOf(va), UbOf(vb)), path,
           push_back(S2, createBOOL(compare(op, va, vb))))

\* The natives of Native.cpp.  vm.stack_manager is the operand stack of run():
\* its pop, push and peek are pop_back, push_back and peek_back.
Invoked(fn, argc, r) == [r EXCEPT !.invoked = <<[fn |-> fn, argc |-> argc]>>]

\* for (int i = 0; i < argc; i++) pop(); push(result)
WrongArgc(S, argc, result) == Res("none", "native", push_back(PopN(S, argc), result))

\* What printing the argc Values on top dereferences.
RECURSIVE PrintedUb(_, _)
PrintedUb(S, n) ==
    IF n = 0 THEN "none" ELSE UbJoin(UbOf(peek_back(S, n - 1)), PrintedUb(S, n - 1))

\* native_print and native_println: the output is not part of the state.
native_print(S, argc) ==
    Res(PrintedUb(S, argc), "native", push_back(PopN(S, argc), createNIL))

native_println(S, argc) == native_print(S, argc)

native_str(S, argc, id) ==
    IF argc # 1 THEN WrongArgc(S, argc, createNIL)
    ELSE LET v == popped(S)
         IN [Res(UbOf(v), "native", push_back(pop_back(S), createOBJECT(id))) EXCEPT
                !.heap = allocNewObject(heap, id, ObjString(toString(v, heap)))]

\* native_len, the native registered as "len".
native_len(S, argc) ==
    IF argc # 1 THEN Res("none", "native", push_back(PopN(S, argc), createINT(0)))
    ELSE LET v == popped(S)
             S1 == pop_back(S)
             size == IF IsKind(v, "Array") \/ IsKind(v, "String")
                     THEN Len(heap[v.object].value)
                     ELSE IF IsKind(v, "Map") THEN Cardinality(DOMAIN heap[v.object].value)
                     ELSE 0
         IN Res(UbOf(v), "native", push_back(S1, createINT(size)))

\* native_exit returns only when argc is not 1.
native_exit(S, argc) ==
    IF argc # 1 THEN WrongArgc(S, argc, createDOUBLE(DoubleOfInt(0)))
    ELSE Res(UbOf(popped(S)), "exit", pop_back(S))

\* native_input: line is what std::getline read.
native_input(S, argc, id, line) ==
    IF argc > 1 THEN WrongArgc(S, argc, createNIL)
    ELSE LET S1 == IF argc = 1 THEN pop_back(S) ELSE S
             u == IF argc = 1 THEN UbOf(popped(S)) ELSE "none"
         IN [Res(u, "native", push_back(S1, createOBJECT(id))) EXCEPT
                !.heap = allocNewObject(heap, id, ObjString(line))]

native_append(S, argc) ==
    IF argc # 2 THEN WrongArgc(S, argc, createNIL)
    ELSE LET item == popped(S)
             S1 == pop_back(S)
             listVal == popped(S1)
             S2 == pop_back(S1)
             nil == Res(UbOf(listVal), "native", push_back(S2, createNIL))
         IN IF ~IsKind(listVal, "Array") THEN nil
            ELSE [nil EXCEPT !.heap =
                     [heap EXCEPT ![listVal.object].value = Append(@, item)]]

\* The loop of native_forEach_simple: per item, the Values pushed and the
\* frame call_function_by_index adds.  The frames are not run here.
RECURSIVE ForEachItem(_, _, _)
ForEachItem(acc, callback, items) ==
    IF items = <<>> THEN acc
    ELSE LET bound == callback.kind = "BoundMethod"
             S1 == IF bound THEN push_back(acc.S, callback.receiver) ELSE acc.S
             S2 == push_back(S1, Head(items))
             fnIndex == IF bound THEN callback.methodIndex ELSE callback.functionIndex
             depth == Len(call_frames) + Len(acc.frames)
             pushed == IF fnIndex >= Len(functions) THEN <<>>
                       ELSE <<[frame |-> CallFrame(fnIndex, S2.sp),
                               log |-> [sp |-> S2.sp, argc |-> IF bound THEN 2 ELSE 1,
                                        stk |-> S2.stk, depth |-> depth,
                                        byCall |-> FALSE]]>>
         IN ForEachItem([S |-> S2, frames |-> acc.frames \o pushed], callback,
                        Tail(items))

native_forEach_simple(S, argc) ==
    IF argc # 2 THEN WrongArgc(S, argc, createNIL)
    ELSE LET callbackVal == popped(S)
             S1 == pop_back(S)
             listVal == popped(S1)
             S2 == pop_back(S1)
             u == UbJoin(UbOf(listVal), UbOf(callbackVal))
             nil == Res(u, "native", push_back(S2, createNIL))
         IN IF ~IsKind(listVal, "Array") THEN [nil EXCEPT !.ub = UbOf(listVal)]
            ELSE IF ~(IsKind(callbackVal, "Function") \/ IsKind(callbackVal, "BoundMethod"))
            THEN nil
            ELSE LET done == ForEachItem([S |-> S2, frames |-> <<>>],
                                         heap[callbackVal.object],
                                         heap[listVal.object].value)
                 IN [Res(u, "native", push_back(done.S, createNIL)) EXCEPT
                        !.frames = done.frames]

\* it->second(*this, argc) for the callable fn.
Native(fn, S, argc, id, line) ==
    Invoked(fn, argc,
        CASE fn = "native_print" -> native_print(S, argc)
          [] fn = "native_println" -> native_println(S, argc)
          [] fn = "native_str" -> native_str(S, argc, id)
          [] fn = "native_len" -> native_len(S, argc)
          [] fn = "native_exit" -> native_exit(S, argc)
          [] fn = "native_input" -> native_input(S, argc, id, line)
          [] fn = "native_append" -> native_append(S, argc)
          [] fn = "native_forEach_simple" -> native_forEach_simple(S, argc))

\* What std::getline reads in the model.
Lines == {"", "hi"}

CALL_NATIVE(nameIdx, argc, id, line) ==
    LET nil(u, path) == Res(u, path, push_back(PopN(S0, argc), createNIL))
    IN IF nameIdx >= Len(global_constants) THEN nil("none", "bad index")
       ELSE LET on == ConstName(nameIdx)
            IN IF ~on.isString THEN nil(on.ub, "name not string")
               ELSE IF on.value \notin DOMAIN native_functions_registry
               THEN nil(on.ub, "not found")
               ELSE [Native(native_functions_registry[on.value], S0, argc, id, line)
                        EXCEPT !.ub = UbJoin(@, on.ub)]

\* The step of run() for an opcode that leaves the frames alone: it ends the
\* process where the operation is undefined, or it leaves what r says.
Executes(op, raw, r) ==
    /\ Fetching
    /\ PopsInside
    /\ native_log' = r.invoked
    /\ \/ /\ r.ub \in {"crash", "either"}
          /\ Crashes(op, raw, S0)
       \/ /\ r.ub # "crash"
          /\ r.path = "exit"
          /\ Exits(op, raw, r.S)
       \/ /\ r.ub # "crash"
          /\ r.path # "exit"
          /\ Len(call_frames) + Len(r.frames) <= MaxFrames
          /\ Completes(op, raw, r.path, r.S)
          /\ call_frames' = call_frames \o [k \in 1..Len(r.frames) |-> r.frames[k].frame]
          /\ call_log' = call_log \o [k \in 1..Len(r.frames) |-> r.frames[k].log]
          /\ ret_log' = NoRet
          /\ heap' = r.heap
          /\ globals' = r.globals
          /\ ub' = (r.ub # "none")

OP_NEW_OBJECT ==
    /\ Fetching
    /\ \E b \in ImmBytes, id \in AllocIds(heap) :
         Executes("NEW_OBJECT", <<U32OfBytes(b, 0)>>, NEW_OBJECT(read_u32_frame(b, 0), id))

OP_NEW_ARRAY ==
    /\ Fetching
    /\ \E id \in AllocIds(heap) : Executes("NEW_ARRAY", <<>>, NEW_ARRAY(id))

OP_NEW_MAP ==
    /\ Fetching
    /\ \E id \in AllocIds(heap) : Executes("NEW_MAP", <<>>, NEW_MAP(id))

OP_IS_INSTANCE ==
    /\ Fetching
    /\ \E b \in ImmBytes :
         Executes("IS_INSTANCE", <<U32OfBytes(b, 0)>>, IS_INSTANCE(read_u32_frame(b, 0)))

OP_GET_FIELD ==
    /\ Fetching
    /\ \E b \in ImmBytes :
         Executes("GET_FIELD", <<U32OfBytes(b, 0)>>, GET_FIELD(read_u32_frame(b, 0)))

OP_SET_FIELD ==
    /\ Fetching
    /\ \E b \in ImmBytes :
         Executes("SET_FIELD", <<U32OfBytes(b, 0)>>, SET_FIELD(read_u32_frame(b, 0)))

OP_ARRAY_GET == Fetching /\ Executes("ARRAY_GET", <<>>, ARRAY_GET)

OP_ARRAY_SET == Fetching /\ Executes("ARRAY_SET", <<>>, ARRAY_SET)

OP_MAP_SET == Fetching /\ Executes("MAP_SET", <<>>, MAP_SET)

OP_MAP_GET == Fetching /\ Executes("MAP_GET", <<>>, MAP_GET)

OP_STRING_CONCAT ==
    /\ Fetching
    /\ \E id \in AllocIds(heap) : Executes("STRING_CONCAT", <<>>, STRING_CONCAT(id))

OP_STRING_LENGTH == Fetching /\ Executes("STRING_LENGTH", <<>>, STRING_LENGTH)

OP_STRING_EQ == Fetching /\ Executes("STRING_EQ", <<>>, STRING_EQ)

OP_LOAD_GLOBAL ==
    /\ Fetching
    /\ \E b \in ImmBytes :
         Executes("LOAD_GLOBAL", <<U32OfBytes(b, 0)>>, LOAD_GLOBAL(read_u32_frame(b, 0)))

OP_STORE_GLOBAL ==
    /\ Fetching
    /\ \E b \in ImmBytes :
         Executes("STORE_GLOBAL", <<U32OfBytes(b, 0)>>, STORE_GLOBAL(read_u32_frame(b, 0)))

OP_ARITH ==
    /\ Fetching
    /\ \E op \in ArithOps : Executes(op, <<>>, ARITH(op))

OP_COMPARE ==
    /\ Fetching
    /\ \E op \in CompareOps : Executes(op, <<>>, COMPARE(op))

(***************************************************************************)
(* OP_CALL_FFI and FFI::load_lib.  dlopen and dlsym are the host's: what   *)
(* they answer is an input, a handle or NULL from dlopen, a symbol or none *)
(* from dlsym, and the foreign function returns what it likes.             *)
(***************************************************************************)
\* A failed open is cached too, as the null handle.
load_lib_caching_failure(libs, path, opened) ==
    IF path \in DOMAIN libs
    THEN [libs |-> libs, h |-> libs[path], dlopen |-> FALSE]
    ELSE [libs |-> MapPut(libs, path, opened), h |-> opened, dlopen |-> TRUE]

\* libs: the cache before the call; opened: what dlopen answers if called.
load_lib(libs, path, opened) ==
    IF path \in DOMAIN libs
    THEN [libs |-> libs, h |-> libs[path], dlopen |-> FALSE]
    ELSE IF opened = NULL
    THEN [libs |-> libs, h |-> NULL, dlopen |-> TRUE]
    ELSE [libs |-> MapPut(libs, path, opened), h |-> opened, dlopen |-> TRUE]

\* One entry of ffi_log.
Loaded(vm, path, l) == [vm |-> vm, path |-> path, dlopen |-> l.dlopen, h |-> l.h]

\* for (int i = 0; i < argc; i++) pop_back(); push_back(Value::createNIL())
FfiFails(ubk, path, argc, libs, calls) ==
    [r |-> Res(ubk, path, push_back(PopN(S0, argc), createNIL)), libs |-> libs,
     calls |-> calls]

\* opened: dlopen's answer; found: dlsym's; result: the foreign function's.
CALL_FFI(libIdx, symIdx, argc, sig, opened, found, result) ==
    LET libs == ffi[1].libs
    IN IF libIdx >= Len(global_constants) \/ symIdx >= Len(global_constants)
       THEN FfiFails("none", "bad index", argc, libs, <<>>)
       ELSE LET libNameObj == ConstName(libIdx)
                symNameObj == ConstName(symIdx)
                u == UbJoin(libNameObj.ub, symNameObj.ub)
            IN IF ~libNameObj.isString \/ ~symNameObj.isString
               THEN FfiFails(u, "name not string", argc, libs, <<>>)
               ELSE LET l == load_lib(libs, libNameObj.value, opened)
                        calls == <<Loaded(1, libNameObj.value, l)>>
                    IN IF l.h = NULL
                       THEN FfiFails(u, "dlopen failed", argc, l.libs, calls)
                       ELSE IF ~found
                       THEN FfiFails(u, "symbol missing", argc, l.libs, calls)
                       ELSE LET S1 == PopN(S0, argc)
                                pushed ==
                                    IF (sig = 0 /\ argc = 2) \/ (sig = 1 /\ argc = 1)
                                    THEN createINT(result)
                                    ELSE IF sig = 2 /\ argc = 2
                                    THEN createDOUBLE(DoubleOfInt(result))
                                    ELSE createNIL
                                path == IF pushed = createNIL THEN "unsupported" ELSE "ok"
                            IN [r |-> Res(u, path, push_back(S1, pushed)),
                                libs |-> l.libs, calls |-> calls]

\* The immediates of CALL_FFI the streams draw.
FfiLibImms == {<<0, 0, 0, 0>>, <<1, 0, 0, 0>>, <<3, 0, 0, 0>>}
FfiSymImms == {<<2, 0, 0, 0>>}
FfiShapes == {<<1, 1>>}      \* argc and sig: int32(int32)
FfiResults == {7}

OP_CALL_FFI ==
    /\ Fetching
    /\ PopsInside
    /\ \E lb \in FfiLibImms, sb \in FfiSymImms, shape \in FfiShapes,
          opened \in {NULL, Len(ffi_log) + 1}, found \in BOOLEAN, result \in FfiResults :
         LET c == CALL_FFI(read_u32_frame(lb, 0), read_u32_frame(sb, 0), shape[1], shape[2],
                           opened, found, result)
             raw == <<U32OfBytes(lb, 0), U32OfBytes(sb, 0), shape[1], shape[2]>>
         IN /\ native_log' = <<>>
            /\ \/ /\ c.r.ub \in {"crash", "either"}
                  /\ Crashes("CALL_FFI", raw, S0)
               \/ /\ c.r.ub # "crash"
                  /\ CompletesWith("CALL_FFI", raw, c.r.path, c.r.S,
                                   [ffi EXCEPT ![1].libs = c.libs], ffi_log \o c.calls)
                  /\ SameFrames
                  /\ UNCHANGED <<heap, globals>>
                  /\ ub' = (c.r.ub # "none")

\* The second VM instance executes a CALL_FFI that reaches load_lib.
other_vm_load_lib ==
    /\ Cardinality({k \in DOMAIN ffi_log : ffi_log[k].vm = 2}) < MaxLoads
    /\ \E path \in FfiPaths, opened \in {NULL, Len(ffi_log) + 1} :
         LET l == load_lib(ffi[2].libs, path, opened)
         IN /\ ffi' = [ffi EXCEPT ![2].libs = l.libs]
            /\ ffi_log' = Append(ffi_log, Loaded(2, path, l))
    /\ UNCHANGED <<stack_internal, sp_internal, call_frames, globals, heap,
                   memThresholdForNextGcCall, pc, ub, code_left, last, trail, native_log,
                   cerr, call_log, ret_log, gc_log>>
    /\ UNCHANGED moduleVars

OP_CALL_NATIVE ==
    /\ Fetching
    /\ \E b \in ImmBytes, argc \in ArgcImms, id \in AllocIds(heap), line \in Lines :
         Executes("CALL_NATIVE", <<U32OfBytes(b, 0), argc>>,
                  CALL_NATIVE(read_u32_frame(b, 0), argc, id, line))

\* DUP that pops the top and pushes it twice.
DUP_by_pop ==
    Res("none", "ok", push_back(push_back(pop_back(S0), popped(S0)), popped(S0)))

\* DUP: Value v = peek_back(0); push_back(v).
DUP == Res("none", "ok", push_back(S0, peek_back(S0, 0)))

\* SWAP: a and b popped in that order, a pushed first.
SWAP ==
    LET a == popped(S0)
        S1 == pop_back(S0)
        b == popped(S1)
        S2 == pop_back(S1)
    IN Res("none", "ok", push_back(push_back(S2, a), b))

\* ROT turning the other way: a, c, b pushed.
ROT_other_way ==
    LET a == popped(S0)
        S1 == pop_back(S0)
        b == popped(S1)
        S2 == pop_back(S1)
        c == popped(S2)
        S3 == pop_back(S2)
    IN Res("none", "ok", push_back(push_back(push_back(S3, a), c), b))

\* ROT: a, b, c popped in that order; b, a, c pushed.
ROT ==
    LET a == popped(S0)
        S1 == pop_back(S0)
        b == popped(S1)
        S2 == pop_back(S1)
        c == popped(S2)
        S3 == pop_back(S2)
    IN Res("none", "ok", push_back(push_back(push_back(S3, b), a), c))

\* NOT reading only a Bool as true.
NOT_of_bool ==
    LET a == popped(S0)
    IN Res("none", "ok",
           push_back(pop_back(S0), createBOOL(~(a.type = "BOOL" /\ a.b))))

\* NOT: push_back(createBOOL(!a.isTruthy())).
NOT ==
    LET a == popped(S0)
    IN Res("none", "ok", push_back(pop_back(S0), createBOOL(~isTruthy(a))))

(***************************************************************************)
(* OP_LOAD_LOCAL and OP_STORE_LOCAL.  The slot is one byte; abs is the     *)
(* uint32_t frame.localStartsAt + slot.                                    *)
(***************************************************************************)
SlotImms == {0, 1, 2, 255}

LOAD_LOCAL(slot) ==
    LET abs == U32Add(call_frames[Len(call_frames)].localStartsAt, slot)
    IN IF U32Lt(abs, sp_internal)
       THEN Res("none", "slot", push_back(S0, stack_internal[abs + 1]))
       ELSE Res("none", "nil", push_back(S0, createNIL))

\* n times push_back(createNIL()), for a vector that reaches sp_internal.
PadNils(S, n) ==
    [stk |-> [k \in 1..Max(Len(S.stk), S.sp + n) |->
                 IF k > S.sp /\ k <= S.sp + n THEN createNIL ELSE S.stk[k]],
     sp |-> S.sp + n]

\* STORE_LOCAL whose loop tests the sp of before the pop.
STORE_LOCAL_padding_before_pop(slot) ==
    LET abs == U32Add(call_frames[Len(call_frames)].localStartsAt, slot)
        val == popped(S0)
        S1 == pop_back(S0)
        S2 == IF U32Le(sp_internal, abs) THEN PadNils(S1, abs - S1.sp + 1) ELSE S1
    IN IF abs < 0 THEN Res("crash", "exhausted", S1)
       ELSE IF abs + 1 > Len(S2.stk) THEN Res("either", "outside", S2)
       ELSE Res("none", "ok", [S2 EXCEPT !.stk[abs + 1] = val])

\* while (sp_internal <= abs) push_back(createNIL()): no vector holds the 2^31
\* Values and more of an abs that wrapped around.
STORE_LOCAL(slot) ==
    LET abs == U32Add(call_frames[Len(call_frames)].localStartsAt, slot)
        val == popped(S0)
        S1 == pop_back(S0)
        S2 == IF U32Le(S1.sp, abs) THEN PadNils(S1, abs - S1.sp + 1) ELSE S1
    IN IF abs < 0 THEN Res("crash", "exhausted", S1)
       ELSE Res("none", "ok", [S2 EXCEPT !.stk[abs + 1] = val])

OP_LOAD_LOCAL ==
    /\ Fetching
    /\ \E slot \in SlotImms : Executes("LOAD_LOCAL", <<slot>>, LOAD_LOCAL(slot))

OP_STORE_LOCAL ==
    /\ Fetching
    /\ \E slot \in SlotImms : Executes("STORE_LOCAL", <<slot>>, STORE_LOCAL(slot))

OP_DUP ==
    /\ Fetching
    /\ Executes("DUP", <<>>, DUP)

OP_SWAP ==
    /\ Fetching
    /\ Executes("SWAP", <<>>, SWAP)

OP_ROT ==
    /\ Fetching
    /\ Executes("ROT", <<>>, ROT)

OP_NOT ==
    /\ Fetching
    /\ Executes("NOT", <<>>, NOT)

\* An instruction that pops while sp_internal lies beyond the vector.
undefined_stack_read ==
    /\ Fetching
    /\ ~PopsInside
    /\ Crashes("POP", <<>>, S0)
    /\ native_log' = <<>>

NextFrames ==
    \/ collect_garbage_if_needed
    \/ run_exit
    \/ end_of_code
    \/ OP_PUSH_CONST
    \/ OP_POP
    \/ OP_CALL
    \/ OP_RETURN
    \/ OP_default
    \/ undefined_stack_read

Spec == Init /\ [][NextFrames]_vars

\* A module whose tables are longer than a byte can index: WideSize constants
\* (constant k is Int k beyond the first three) and WideSize functions, all
\* named "main"; the last function declares three locals.
WideSize == U8 + 1

InitWideModule(lc) ==
    /\ global_constants =
           [k \in 1..WideSize |->
               IF k = 1 THEN createINT(1)
               ELSE IF k \in {2, 3} THEN createOBJECT(k - 1) ELSE createINT(k - 1)]
    /\ heap = [o \in ObjIds |-> IF o = 1 THEN ObjString("main")
                                ELSE IF o = 2 THEN ObjString("len") ELSE NoObject]
    /\ functions = [k \in 1..WideSize |->
                       Function("main", <<>>, 0, IF k = 1 THEN lc
                                                 ELSE IF k = WideSize THEN 3 ELSE 1)]
    /\ function_index_by_name = [n \in {"main"} |-> WideSize - 1]

InitWide == (\E lc \in 0..2 : InitWideModule(lc)) /\ InitRun /\ code_left = MaxOps

SpecWide == InitWide /\ [][NextFrames]_vars

\* The frame instructions with the heap, arithmetic and native instructions.
Next ==
    \/ NextFrames
    \/ OP_NEW_OBJECT
    \/ OP_NEW_ARRAY
    \/ OP_NEW_MAP
    \/ OP_IS_INSTANCE
    \/ OP_GET_FIELD
    \/ OP_SET_FIELD
    \/ OP_ARRAY_GET
    \/ OP_ARRAY_SET
    \/ OP_MAP_SET
    \/ OP_MAP_GET
    \/ OP_STRING_CONCAT
    \/ OP_STRING_LENGTH
    \/ OP_STRING_EQ
    \/ OP_LOAD_GLOBAL
    \/ OP_STORE_GLOBAL
    \/ OP_ARITH
    \/ OP_CALL_NATIVE

InitVM == (\E lc \in 0..2 : InitModule(lc)) /\ InitRun /\ code_left = MaxOps

SpecVM == InitVM /\ [][Next]_vars

(***************************************************************************)
(* Runs taken up where main has already left Values on its operand stack:  *)
(* up to RotOperands of them, the top one of any type.  These runs keep    *)
(* their trail.                                                            *)
(***************************************************************************)
RotOperands == 3

\* Values arithmetic and the constants leave on a stack.
TopValues ==
    {createNIL, createBOOL(FALSE), createBOOL(TRUE), createINT(0), createINT(2),
     createDOUBLE(Frac(0, 1)), createDOUBLE(Frac(1, 2)), createDOUBLE(DNaN),
     createOBJECT(1)}

LowerValues == {createNIL, createINT(2), createOBJECT(1)}

Stacks ==
    LET lower == UNION {[1..n -> LowerValues] : n \in 0..(RotOperands - 1)}
    IN lower \cup {Append(q, v) : q \in lower, v \in TopValues}

InitLaws ==
    /\ InitModule(0)
    /\ stack_internal \in Stacks
    /\ sp_internal = Len(stack_internal)
    /\ trail = TrailStart
    /\ InitFields
    /\ code_left = MaxOps

NextLaws ==
    \/ collect_garbage_if_needed
    \/ run_exit
    \/ end_of_code
    \/ OP_POP
    \/ OP_DUP
    \/ OP_SWAP
    \/ OP_ROT
    \/ OP_NOT
    \/ OP_default

SpecLaws == InitLaws /\ [][NextLaws]_vars

NextArith ==
    \/ collect_garbage_if_needed
    \/ run_exit
    \/ end_of_code
    \/ OP_ARITH
    \/ OP_default

SpecArith == InitLaws /\ [][NextArith]_vars

(***************************************************************************)
(* Runs of ADD, SUB and MUL over two Ints main has left on its stack, the  *)
(* largest int and two whose product needs 33 bits among them.             *)
(***************************************************************************)
IntArithOps == {"ADD", "SUB", "MUL"}
IntOperands == {2147483647, 65536, -65536, 3, 1}
IntStacks == {<<createINT(a), createINT(b)>> : a \in IntOperands, b \in IntOperands}

OP_ADD_SUB_MUL ==
    /\ Fetching
    /\ \E op \in IntArithOps : Executes(op, <<>>, ARITH(op))

InitInt ==
    /\ InitModule(0)
    /\ stack_internal \in IntStacks
    /\ sp_internal = Len(stack_internal)
    /\ trail = TrailStart
    /\ InitFields
    /\ code_left = MaxOps

NextInt ==
    \/ collect_garbage_if_needed
    \/ run_exit
    \/ end_of_code
    \/ OP_ADD_SUB_MUL
    \/ OP_default

SpecInt == InitInt /\ [][NextInt]_vars

(***************************************************************************)
(* Runs with the natives of register_native_functions.  The pool holds one *)
(* name, of a native or one nobody registered; the heap holds an array and *)
(* a function object, and main has left up to two Values on its stack.     *)
(***************************************************************************)
BuiltIns ==
    <<[name |-> "exit", fn |-> "native_exit"],
      [name |-> "print", fn |-> "native_print"],
      [name |-> "println", fn |-> "native_println"],
      [name |-> "str", fn |-> "native_str"],
      [name |-> "len", fn |-> "native_len"],
      [name |-> "input", fn |-> "native_input"],
      [name |-> "append", fn |-> "native_append"],
      [name |-> "forEach", fn |-> "native_forEach_simple"]>>

\* The registry the calls of a log leave, one register_native per entry.
RECURSIVE Registered(_)
Registered(log) ==
    IF log = <<>> THEN NoNatives
    ELSE register_native(Registered(SubSeq(log, 1, Len(log) - 1)),
                         log[Len(log)].name, log[Len(log)].fn)

NativeValues == {createINT(2), createOBJECT(2), createOBJECT(3)}

NativeStacks == UNION {[1..n -> NativeValues] : n \in 0..2}

InitNative ==
    /\ \E name \in {BuiltIns[k].name : k \in 1..Len(BuiltIns)} \cup {"nope"},
          items \in {<<>>, <<createINT(2)>>} :
          heap = [o \in ObjIds |->
                    CASE o = 1 -> ObjString(name)
                      [] o = 2 -> ObjArray(items)
                      [] o = 3 -> ObjFunction(0)
                      [] OTHER -> NoObject]
    /\ global_constants = <<createOBJECT(1)>>
    /\ functions = <<Function("main", <<>>, 0, 0)>>
    /\ function_index_by_name = [n \in {"main"} |-> 0]
    /\ stack_internal \in NativeStacks
    /\ sp_internal = Len(stack_internal)
    /\ trail = <<>>
    /\ InitCore
    /\ register_log = BuiltIns
    /\ native_functions_registry = Registered(BuiltIns)
    /\ code_left = MaxOps - 1

\* The host registers a name once more before run() has fetched anything.
host_register_native ==
    /\ pc = "loop"
    /\ last = NoLast
    /\ register_log = BuiltIns
    /\ \E name \in {"len", "print"} :
          /\ native_functions_registry' =
                 register_native(native_functions_registry, name, "native_str")
          /\ register_log' = Append(register_log, [name |-> name, fn |-> "native_str"])
    /\ UNCHANGED <<stack_internal, sp_internal, stack, sp, call_frames, globals, functions,
                   function_index_by_name, global_constants, heap,
                   memThresholdForNextGcCall, pc, ub, code_left, last, trail, native_log, cerr, ffi, ffi_log,
                   call_log, ret_log, gc_log, loader>>

NextNative ==
    \/ host_register_native
    \/ collect_garbage_if_needed
    \/ run_exit
    \/ end_of_code
    \/ OP_CALL_NATIVE
    \/ OP_default

SpecNative == InitNative /\ [][NextNative]_vars

(***************************************************************************)
(* Runs over the globals of a module with WideSize constants: the names    *)
(* "a" at index 0, "b" at index 1, another "a" at index 2, and "b" again   *)
(* at the last index, WideSize - 1; the other constants are Ints.          *)
(***************************************************************************)
InitGlobals ==
    /\ global_constants =
           [k \in 1..WideSize |->
               IF k \in {1, 2, 3} THEN createOBJECT(k)
               ELSE IF k = WideSize THEN createOBJECT(2) ELSE createINT(k - 1)]
    /\ heap = [o \in ObjIds |-> IF o \in {1, 3} THEN ObjString("a")
                                ELSE IF o = 2 THEN ObjString("b") ELSE NoObject]
    /\ functions = <<Function("main", <<>>, 0, 0)>>
    /\ function_index_by_name = [n \in {"main"} |-> 0]
    /\ InitRun
    /\ code_left = MaxOps

NextGlobals ==
    \/ collect_garbage_if_needed
    \/ run_exit
    \/ end_of_code
    \/ OP_PUSH_CONST
    \/ OP_CALL
    \/ OP_RETURN
    \/ OP_LOAD_GLOBAL
    \/ OP_STORE_GLOBAL
    \/ OP_default
    \/ undefined_stack_read

SpecGlobals == InitGlobals /\ [][NextGlobals]_vars

(***************************************************************************)
(* Runs over an array: the heap holds an array of up to two elements and a *)
(* String, and main has left on its stack the operands of ARRAY_GET or of  *)
(* ARRAY_SET, above another reference to the array or above nothing.       *)
(* These runs keep their trail.                                            *)
(***************************************************************************)
ArrayItems == {<<>>, <<createINT(5)>>, <<createINT(5), createINT(6)>>}
ArrayOperands == {createOBJECT(1), createOBJECT(2)}
IndexOperands == {createINT(-1), createINT(0), createINT(1), createINT(3)}
StoredValues == {createNIL, createINT(7), createOBJECT(2)}

ArrayStacks ==
    LET below == {<<>>, <<createOBJECT(1)>>}
        gets == {q \o <<a, i>> : q \in below, a \in ArrayOperands, i \in IndexOperands}
    IN {<<>>} \cup gets \cup {Append(q, v) : q \in gets, v \in StoredValues}

InitArrays ==
    /\ global_constants = <<createINT(1), createOBJECT(2)>>
    /\ \E items \in ArrayItems :
          heap = [o \in ObjIds |-> IF o = 1 THEN ObjArray(items)
                                   ELSE IF o = 2 THEN ObjString("main") ELSE NoObject]
    /\ functions = <<Function("main", <<>>, 0, 0)>>
    /\ function_index_by_name = [n \in {"main"} |-> 0]
    /\ stack_internal \in ArrayStacks
    /\ sp_internal = Len(stack_internal)
    /\ trail = TrailStart
    /\ InitFields
    /\ code_left = MaxOps

NextArrays ==
    \/ collect_garbage_if_needed
    \/ run_exit
    \/ end_of_code
    \/ OP_PUSH_CONST
    \/ OP_ARRAY_GET
    \/ OP_ARRAY_SET
    \/ OP_default

SpecArrays == InitArrays /\ [][NextArrays]_vars

(***************************************************************************)
(* Runs of comparisons: the heap holds three objects, Strings of equal and *)
(* of different contents or objects of several variants, and main has left *)
(* up to two operands on its stack.  These runs keep their trail.          *)
(***************************************************************************)
ComparedHeaps ==
    {<<ObjString("a"), ObjString("ab"), ObjString("a")>>,
     <<ObjString(""), ObjString("B"), ObjString("b")>>,
     <<ObjArray(<<>>), ObjMap(EmptyMap), ObjString("a")>>,
     <<ObjArray(<<>>), ObjArray(<<>>), ObjInstance("Object", EmptyMap)>>}

ComparedValues ==
    {createNIL, createBOOL(FALSE), createBOOL(TRUE), createINT(0), createINT(1),
     createDOUBLE(Frac(1, 1)), createDOUBLE(DNaN),
     createOBJECT(1), createOBJECT(2), createOBJECT(3)}

ComparedStacks ==
    {<<>>} \cup {<<v>> : v \in ComparedValues}
           \cup {<<a, b>> : a \in ComparedValues, b \in ComparedValues}

InitCompare ==
    /\ global_constants = <<>>
    /\ \E objs \in ComparedHeaps :
          heap = [o \in ObjIds |-> IF o <= Len(objs) THEN objs[o] ELSE NoObject]
    /\ functions = <<Function("main", <<>>, 0, 0)>>
    /\ function_index_by_name = [n \in {"main"} |-> 0]
    /\ stack_internal \in ComparedStacks
    /\ sp_internal = Len(stack_internal)
    /\ trail = TrailStart
    /\ InitFields
    /\ code_left = MaxOps

NextCompare ==
    \/ collect_garbage_if_needed
    \/ run_exit
    \/ end_of_code
    \/ OP_COMPARE
    \/ OP_default

SpecCompare == InitCompare /\ [][NextCompare]_vars

(***************************************************************************)
(* Runs over a map: the heap holds a map and two more objects, and main    *)
(* has left on its stack the operands of MAP_SET or of MAP_GET, above the  *)
(* operands of a MAP_GET or above nothing.  These runs keep their trail.   *)
(***************************************************************************)
MapEntries ==
    {EmptyMap,
     MapPut(EmptyMap, get_representor(ObjString("k")), createINT(5)),
     MapPut(MapPut(EmptyMap, "1", createINT(5)), "<array>", createINT(6))}

KeyObjects ==
    {<<ObjString("k"), ObjString("k")>>,
     <<ObjString("k"), ObjString("j")>>,
     <<ObjArray(<<>>), ObjArray(<<>>)>>}

KeyOperands == {createNIL, createINT(1), createOBJECT(2), createOBJECT(3)}
MapOperands == {createOBJECT(1), createOBJECT(2)}
MappedValues == {createINT(7), createOBJECT(2)}

MapStacks ==
    LET gets == {<<m, k>> : m \in MapOperands, k \in KeyOperands}
        below == {<<>>} \cup gets
    IN below \cup {q \o <<createOBJECT(1), k, v>> :
                      q \in below, k \in KeyOperands, v \in MappedValues}

InitMaps ==
    /\ global_constants = <<>>
    /\ \E entries \in MapEntries, keys \in KeyObjects :
          heap = [o \in ObjIds |-> IF o = 1 THEN ObjMap(entries)
                                   ELSE IF o <= 3 THEN keys[o - 1] ELSE NoObject]
    /\ functions = <<Function("main", <<>>, 0, 0)>>
    /\ function_index_by_name = [n \in {"main"} |-> 0]
    /\ stack_internal \in MapStacks
    /\ sp_internal = Len(stack_internal)
    /\ trail = TrailStart
    /\ InitFields
    /\ code_left = MaxOps

NextMaps ==
    \/ collect_garbage_if_needed
    \/ run_exit
    \/ end_of_code
    \/ OP_MAP_SET
    \/ OP_MAP_GET
    \/ OP_default

SpecMaps == InitMaps /\ [][NextMaps]_vars

(***************************************************************************)
(* A host that calls the stack operations of a VM it has constructed, on   *)
(* either stack, code_left calls in all.  last keeps the call: its name,   *)
(* sp before it, and in raw its argument and the Value it returned.        *)
(***************************************************************************)
HostValues == {createINT(1), createINT(2)}
HostPositions == {0, 1, 2}

Sx == [stk |-> stack, sp |-> sp]

\* The host may call: run() has not started and calls are left.
Hosting == pc = "loop" /\ code_left > 0

\* The call leaves T of the stack it worked on.
HostCall(op, raw, before, T, internal) ==
    /\ code_left' = code_left - 1
    /\ last' = [op |-> op, sp |-> before, raw |-> raw, path |-> "ok"]
    /\ IF internal
       THEN stack_internal' = T.stk /\ sp_internal' = T.sp /\ UNCHANGED <<stack, sp>>
       ELSE stack' = T.stk /\ sp' = T.sp /\ UNCHANGED <<stack_internal, sp_internal>>
    /\ UNCHANGED <<call_frames, globals, functions, function_index_by_name,
                   global_constants, native_functions_registry, register_log, heap,
                   memThresholdForNextGcCall, pc, ub, trail, native_log, cerr, ffi, ffi_log,
                   call_log, ret_log, gc_log, loader>>

host_push ==
    /\ Hosting
    /\ \E v \in HostValues : HostCall("push", <<v>>, sp, push(Sx, v), FALSE)

host_pop ==
    /\ Hosting
    /\ HostCall("pop", <<pop_value(Sx)>>, sp, pop(Sx), FALSE)

host_peek ==
    /\ Hosting
    /\ \E k \in HostPositions : HostCall("peek", <<k, peek(Sx, k)>>, sp, Sx, FALSE)

host_push_back ==
    /\ Hosting
    /\ \E v \in HostValues :
          HostCall("push_back", <<v>>, sp_internal, push_back(S0, v), TRUE)

host_pop_back ==
    /\ Hosting
    /\ HostCall("pop_back", <<popped(S0)>>, sp_internal, pop_back(S0), TRUE)

host_peek_back ==
    /\ Hosting
    /\ \E k \in HostPositions :
          HostCall("peek_back", <<k, peek_back(S0, k)>>, sp_internal, S0, TRUE)

InitStacks == InitModule(0) /\ InitRun /\ code_left = MaxCode

NextStacks ==
    \/ host_push
    \/ host_pop
    \/ host_peek
    \/ host_push_back
    \/ host_pop_back
    \/ host_peek_back

SpecStacks == InitStacks /\ [][NextStacks]_vars

(***************************************************************************)
(* Runs of CALL_FFI in a process of two VM instances: the constants are    *)
(* the library paths "libm" and "libx", the symbol "cos" and an Int.       *)
(***************************************************************************)
InitFFI ==
    /\ global_constants = <<createOBJECT(1), createOBJECT(2), createOBJECT(3), createINT(1)>>
    /\ heap = [o \in ObjIds |-> IF o = 1 THEN ObjString("libm")
                                ELSE IF o = 2 THEN ObjString("libx")
                                ELSE IF o = 3 THEN ObjString("cos") ELSE NoObject]
    /\ functions = <<Function("main", <<>>, 0, 0)>>
    /\ function_index_by_name = [n \in {"main"} |-> 0]
    /\ InitRun
    /\ code_left = MaxOps

NextFFI ==
    \/ collect_garbage_if_needed
    \/ run_exit
    \/ end_of_code
    \/ OP_CALL_FFI
    \/ other_vm_load_lib
    \/ OP_default

SpecFFI == InitFFI /\ [][NextFFI]_vars

(***************************************************************************)
(* Runs over an instance of a module with WideSize constants: the Strings  *)
(* "a" at index 0 and "b" at index 1 and at the last index, WideSize - 1,  *)
(* Ints elsewhere.  The heap holds the two Strings and an instance of "a", *)
(* and main has left on its stack the operands of the field opcodes.       *)
(***************************************************************************)
InstanceFields ==
    {EmptyMap,
     MapPut(EmptyMap, "a", createINT(5)),
     MapPut(MapPut(EmptyMap, "a", createINT(5)), "b", createINT(6))}

InstanceStacks ==
    LET objs == {createOBJECT(3), createOBJECT(1)}
        sets == {<<o, v>> : o \in objs, v \in {createINT(7), createOBJECT(1)}}
    IN {<<>>, <<createNIL>>} \cup {<<o>> : o \in objs} \cup sets
           \cup {<<createOBJECT(3)>> \o q : q \in sets}

InitInstances ==
    /\ global_constants =
           [k \in 1..WideSize |->
               IF k \in {1, 2} THEN createOBJECT(k)
               ELSE IF k = WideSize THEN createOBJECT(2) ELSE createINT(k - 1)]
    /\ \E f \in InstanceFields :
          heap = [o \in ObjIds |-> IF o = 1 THEN ObjString("a")
                                   ELSE IF o = 2 THEN ObjString("b")
                                   ELSE IF o = 3 THEN ObjInstance("a", f) ELSE NoObject]
    /\ functions = <<Function("main", <<>>, 0, 0)>>
    /\ function_index_by_name = [n \in {"main"} |-> 0]
    /\ stack_internal \in InstanceStacks
    /\ sp_internal = Len(stack_internal)
    /\ trail = <<>>
    /\ InitFields
    /\ code_left = MaxOps

NextInstances ==
    \/ collect_garbage_if_needed
    \/ run_exit
    \/ end_of_code
    \/ OP_NEW_OBJECT
    \/ OP_IS_INSTANCE
    \/ OP_GET_FIELD
    \/ OP_SET_FIELD
    \/ OP_default

SpecInstances == InitInstances /\ [][NextInstances]_vars

(***************************************************************************)
(* Runs of the instructions that write: main, with one function beside it, *)
(* has an array, a map, an instance and the operands of one write on its   *)
(* stack.                                                                  *)
(***************************************************************************)
WriterStacks ==
    {<<>>,
     <<createINT(7)>>,
     <<createOBJECT(1), createOBJECT(2)>>,
     <<createOBJECT(5), createINT(7)>>,
     <<createOBJECT(3), createINT(0), createINT(7)>>,
     <<createOBJECT(4), createOBJECT(1), createINT(7)>>}

LoadedModule ==
    [global_constants |-> <<createINT(1), createOBJECT(1), createOBJECT(2)>>,
     functions |-> <<Function("main", <<>>, 0, 0), Function("len", <<>>, 1, 1)>>,
     function_index_by_name |-> [n \in {"main", "len"} |-> IF n = "main" THEN 0 ELSE 1]]

InitWriters ==
    /\ global_constants = LoadedModule.global_constants
    /\ heap = [o \in ObjIds |->
                 CASE o = 1 -> ObjString("main")
                   [] o = 2 -> ObjString("len")
                   [] o = 3 -> ObjArray(<<createINT(5)>>)
                   [] o = 4 -> ObjMap(EmptyMap)
                   [] o = 5 -> ObjInstance("main", EmptyMap)
                   [] OTHER -> NoObject]
    /\ functions = LoadedModule.functions
    /\ function_index_by_name = LoadedModule.function_index_by_name
    /\ stack_internal \in WriterStacks
    /\ sp_internal = Len(stack_internal)
    /\ trail = <<>>
    /\ InitFields
    /\ code_left = MaxWrites

NextWriters ==
    \/ collect_garbage_if_needed
    \/ run_exit
    \/ end_of_code
    \/ OP_CALL
    \/ OP_RETURN
    \/ OP_STORE_GLOBAL
    \/ OP_SET_FIELD
    \/ OP_ARRAY_SET
    \/ OP_MAP_SET
    \/ OP_STRING_CONCAT
    \/ OP_default

SpecWriters == InitWriters /\ [][NextWriters]_vars

(***************************************************************************)
(* Runs of LOAD_LOCAL and STORE_LOCAL taken up in main, or in a function   *)
(* main has called with one argument: the vector holds up to three Ints,   *)
(* each its own, sp_internal is at or below its end, and the callee's      *)
(* locals start at a slot main had filled.                                 *)
(***************************************************************************)
LocalVectors == {[k \in 1..n |-> createINT(k)] : n \in 0..3}

InitLocals ==
    /\ global_constants = <<createINT(1), createOBJECT(1), createOBJECT(2)>>
    /\ heap = [o \in ObjIds |-> IF o = 1 THEN ObjString("main")
                                ELSE IF o = 2 THEN ObjString("len") ELSE NoObject]
    /\ functions = <<Function("main", <<>>, 0, 0), Function("len", <<>>, 1, 2)>>
    /\ function_index_by_name = [n \in {"main", "len"} |-> IF n = "main" THEN 0 ELSE 1]
    /\ stack_internal \in LocalVectors
    /\ sp_internal \in 0..Len(stack_internal)
    /\ \/ /\ call_frames = call_function_by_index(<<>>, functions, 0, 0, 0)
          /\ call_log = <<EntryLog>>
       \/ \E base \in 1..(Len(stack_internal) - 1) :
             /\ call_frames = Append(call_function_by_index(<<>>, functions, 0, 0, 0),
                                     CallFrame(1, base))
             /\ call_log = <<EntryLog,
                             [sp |-> base + 1, argc |-> 1,
                              stk |-> SubSeq(stack_internal, 1, base + 1),
                              depth |-> 1, byCall |-> TRUE]>>
    /\ stack = <<>>
    /\ sp = 0
    /\ globals = EmptyMap
    /\ native_log = <<>>
    /\ cerr = <<>>
    /\ ffi = [v \in VMs |-> NoLibs]
    /\ ffi_log = <<>>
    /\ memThresholdForNextGcCall = GcThreshold
    /\ pc = "loop"
    /\ ub = FALSE
    /\ last = NoLast
    /\ ret_log = NoRet
    /\ gc_log = NoGc
    /\ loader = NoLoader
    /\ native_functions_registry = register_native(NoNatives, "len", "native_len")
    /\ register_log = <<[name |-> "len", fn |-> "native_len"]>>
    /\ trail = TrailStart
    /\ code_left = MaxOps

NextLocals ==
    \/ collect_garbage_if_needed
    \/ run_exit
    \/ end_of_code
    \/ OP_LOAD_LOCAL
    \/ OP_STORE_LOCAL
    \/ OP_default

SpecLocals == InitLocals /\ [][NextLocals]_vars

(***************************************************************************)
(* Runs from the entry frame of a main that declares up to two locals,     *)
(* over the instructions that push, call, return and access locals.        *)
(***************************************************************************)
NextEntry ==
    \/ NextFrames
    \/ OP_LOAD_LOCAL
    \/ OP_STORE_LOCAL

InitEntry == (\E lc \in 0..2 : InitModule(lc)) /\ InitRun /\ code_left = MaxOps

SpecEntry == InitEntry /\ [][NextEntry]_vars

(***************************************************************************)
(* Runs of forEach over a list and a callback main has pushed: a function  *)
(* of one argument, a function index outside the table, or a method bound  *)
(* to a receiver; the callback's frame then reads its locals.              *)
(***************************************************************************)
Callbacks == {ObjFunction(1), ObjFunction(3), ObjBoundMethod(createINT(9), 2)}
CallbackLists == {<<createINT(2)>>, <<createINT(2), createINT(3)>>}

InitCallback ==
    /\ \E items \in CallbackLists, callback \in Callbacks :
          heap = [o \in ObjIds |->
                    CASE o = 1 -> ObjString("forEach")
                      [] o = 2 -> ObjArray(items)
                      [] o = 3 -> callback
                      [] OTHER -> NoObject]
    /\ global_constants = <<createOBJECT(1)>>
    /\ functions = <<Function("main", <<>>, 0, 0), Function("each", <<>>, 1, 1),
                     Function("method", <<>>, 2, 2)>>
    /\ function_index_by_name =
           [n \in {"main", "each", "method"} |->
               IF n = "main" THEN 0 ELSE IF n = "each" THEN 1 ELSE 2]
    /\ stack_internal = <<createOBJECT(2), createOBJECT(3)>>
    /\ sp_internal = 2
    /\ trail = TrailStart
    /\ InitCore
    /\ register_log = BuiltIns
    /\ native_functions_registry = Registered(BuiltIns)
    /\ code_left = MaxOps

NextCallback ==
    \/ collect_garbage_if_needed
    \/ run_exit
    \/ end_of_code
    \/ OP_CALL_NATIVE
    \/ OP_LOAD_LOCAL
    \/ OP_RETURN
    \/ OP_default

SpecCallback == InitCallback /\ [][NextCallback]_vars

(***************************************************************************)
(* The .dbc file and VM::load_dbc_file.  A file is a sequence of bytes; a  *)
(* std::string is the sequence of its bytes.  u32 fields are held in their *)
(* two's-complement form, so 2^32 - 1 is -1.                               *)
(***************************************************************************)
MaxConsts == 2        \* constants of a module description
MaxFns == 2           \* function headers of a module description

U32Bytes(v) ==
    <<v % 256, (v \div 256) % 256, (v \div 65536) % 256, (v \div 16777216) % 256>>

\* The doubles of the model and their IEEE-754 bytes, little-endian.
DoubleTable ==
    {[d |-> Frac(0, 1), bytes |-> <<0, 0, 0, 0, 0, 0, 0, 0>>],
     [d |-> Frac(1, 1), bytes |-> <<0, 0, 0, 0, 0, 0, 240, 63>>],
     [d |-> Frac(1, 2), bytes |-> <<0, 0, 0, 0, 0, 0, 224, 63>>]}

DoubleBytes(d) == (CHOOSE e \in DoubleTable : e.d = d).bytes

\* memcpy of eight bytes into a double: a double outside the table is its bytes.
DoubleOfBytes(b) ==
    IF \E e \in DoubleTable : e.bytes = b
    THEN (CHOOSE e \in DoubleTable : e.bytes = b).d
    ELSE [bits |-> b]

RECURSIVE Flatten(_)
Flatten(ss) == IF ss = <<>> THEN <<>> ELSE Head(ss) \o Flatten(Tail(ss))

\* The layout of the file: constants by tag, function headers, code section.
EncodeConst(c) ==
    CASE c.tag = 1 -> <<1>> \o U32Bytes(c.i)
      [] c.tag = 2 -> <<2>> \o DoubleBytes(c.d)
      [] c.tag = 3 -> <<3>> \o U32Bytes(Len(c.s)) \o c.s
      [] c.tag = 4 -> <<4>>
      [] c.tag = 5 -> <<5, IF c.b THEN 1 ELSE 0>>
      [] OTHER -> <<c.tag>>

EncodeHeader(h) ==
    U32Bytes(h.nameIndex) \o U32Bytes(h.start) \o U32Bytes(h.size)
        \o <<h.argCount, h.localCount>>

Encode(d) ==
    d.magic \o <<d.version>>
        \o U32Bytes(Len(d.consts)) \o Flatten([k \in 1..Len(d.consts) |-> EncodeConst(d.consts[k])])
        \o U32Bytes(Len(d.fns)) \o Flatten([k \in 1..Len(d.fns) |-> EncodeHeader(d.fns[k])])
        \o U32Bytes(d.codeSize) \o d.code

\* The bytes at off .. off + n - 1; where the buffer has ended, what lies
\* behind it (zero bytes, when the read does not fault).
ReadBytes(buf, off, n) == [k \in 1..n |-> IF off + k <= Len(buf) THEN buf[off + k] ELSE 0]
Outside(buf, off, n) == n > 0 /\ off + n > Len(buf)

read_u32(buf, off) == U32OfBytes(ReadBytes(buf, off, 4), 0)
read_u8(buf, off) == ReadBytes(buf, off, 1)[1]
read_i32(buf, off) == U32OfBytes(ReadBytes(buf, off, 4), 0)
read_double(buf, off) == DoubleOfBytes(ReadBytes(buf, off, 8))

\* The mathematical sum of two u32 exceeds n, for 0 <= n < 2^31.
SumExceeds(a, b, n) == a < 0 \/ b < 0 \/ a > n \/ b > n - a

(***************************************************************************)
(* The module descriptions the loader is given, encoded.                   *)
(***************************************************************************)
Magic == <<68, 76, 66, 67>>
CodeSection == <<7, 9>>

ConstChoices ==
    {[tag |-> 1, i |-> -2], [tag |-> 2, d |-> Frac(1, 2)], [tag |-> 3, s |-> <<102>>],
     [tag |-> 3, s |-> <<103, 104>>], [tag |-> 4], [tag |-> 5, b |-> TRUE]}

SeqsUpTo(S, n) == UNION {[1..k -> S] : k \in 0..n}

SliceChoices ==
    {[start |-> 0, size |-> 2, argCount |-> 1, localCount |-> 2],
     [start |-> 1, size |-> 1, argCount |-> 0, localCount |-> 3]}

HeaderChoices(consts) ==
    {[nameIndex |-> k - 1, start |-> sl.start, size |-> sl.size,
      argCount |-> sl.argCount, localCount |-> sl.localCount] :
        k \in {j \in 1..Len(consts) : consts[j].tag = 3}, sl \in SliceChoices}

Desc(consts, fns) ==
    [magic |-> Magic, version |-> 1, consts |-> consts, fns |-> fns,
     codeSize |-> Len(CodeSection), code |-> CodeSection]

\* Well-formed: tags 1..5, every name index a String constant, every code
\* slice inside the code section.
WellFormedDescs ==
    UNION {{Desc(c, f) : f \in SeqsUpTo(HeaderChoices(c), MaxFns)} :
              c \in SeqsUpTo(ConstChoices, MaxConsts)}

\* The descriptions the faults are planted in: two functions named by one String.
Seeds ==
    LET c == <<[tag |-> 3, s |-> <<102>>], [tag |-> 1, i |-> -2]>>
    IN {Desc(c, f) : f \in [1..2 -> HeaderChoices(c)]}

\* One fault: magic, version, code size, a constant's tag, a header's name
\* index, a header's code slice, a header's counts.
Faults(d) ==
    {[d EXCEPT !.magic = <<68, 76, 66, 66>>], [d EXCEPT !.version = 2],
     [d EXCEPT !.codeSize = Len(d.code) + 1]}
    \cup {[d EXCEPT !.fns[k].argCount = 2, !.fns[k].localCount = 0] : k \in 1..Len(d.fns)}
    \cup {[d EXCEPT !.consts[k] = [tag |-> 6]] : k \in 1..Len(d.consts)}
    \cup {[d EXCEPT !.fns[k].nameIndex = n] : k \in 1..Len(d.fns), n \in {1, 2}}
    \cup {[d EXCEPT !.fns[k].start = sl[1], !.fns[k].size = sl[2]] :
             k \in 1..Len(d.fns), sl \in {<<1, 2>>, <<-1, 2>>, <<2, -1>>, <<3, 0>>}}

\* The files: well-formed ones whole, the seeds cut at every length, the
\* faulty ones whole.
Inputs ==
    {[desc |-> d, wellFormed |-> TRUE, buf |-> Encode(d)] : d \in WellFormedDescs}
    \cup UNION {{[desc |-> d, wellFormed |-> FALSE, buf |-> SubSeq(Encode(d), 1, cut)] :
                    cut \in 0..(Len(Encode(d)) - 1)} : d \in Seeds}
    \cup {[desc |-> d, wellFormed |-> FALSE, buf |-> Encode(d)] :
             d \in UNION {Faults(s) : s \in Seeds}}

\* The VM before load_dbc_file, and the file read into buf.
InitLoadAt(threshold) ==
    /\ \E in \in Inputs :
         loader = [state |-> "open", buf |-> in.buf, off |-> 0, constCount |-> 0,
                   constPool |-> <<>>, fnCount |-> 0, headers |-> <<>>, codeSize |-> 0,
                   code |-> <<>>, i |-> 0, oob |-> FALSE, fault |-> "none",
                   desc |-> in.desc,
                   wellFormed |-> in.wellFormed]
    /\ global_constants = <<>>
    /\ functions = <<>>
    /\ function_index_by_name = EmptyMap
    /\ heap = [o \in ObjIds |-> NoObject]
    /\ stack_internal = <<>>
    /\ sp_internal = 0
    /\ stack = <<>>
    /\ sp = 0
    /\ globals = EmptyMap
    /\ native_functions_registry = register_native(NoNatives, "len", "native_len")
    /\ register_log = <<[name |-> "len", fn |-> "native_len"]>>
    /\ native_log = <<>>
    /\ cerr = <<>>
    /\ ffi = [v \in VMs |-> NoLibs]
    /\ ffi_log = <<>>
    /\ memThresholdForNextGcCall = threshold
    /\ call_frames = <<>>
    /\ call_log = <<>>
    /\ pc = "loading"
    /\ ub = FALSE
    /\ code_left = 0
    /\ last = NoLast
    /\ trail = <<>>
    /\ ret_log = NoRet
    /\ gc_log = NoGc

InitLoad == InitLoadAt(GcThreshold)

runVars == <<stack_internal, sp_internal, stack, sp, call_frames, globals,
             native_functions_registry, register_log, memThresholdForNextGcCall, pc, ub,
             code_left,
             last, trail, native_log, cerr, ffi, ffi_log, call_log, ret_log, gc_log>>

\* return false
Rejected == [loader EXCEPT !.state = "error"]

\* A step of load_dbc_file.  ubk tells whether it reads outside the vector
\* named by what, "buf" or "code": "none"; "either", the read faults or yields
\* the bytes behind the vector; "crash", it faults.  Otherwise the step leaves
\* the loader record nl and the tables h, fns, idx, consts.  oob records a
\* read of buf at an offset past its end.
LoadStep(ubk, what, nl, h, fns, idx, consts) ==
    /\ \/ /\ ubk \in {"crash", "either"}
          /\ loader' = [loader EXCEPT !.state = "crashed", !.fault = what,
                                      !.oob = @ \/ what = "buf"]
          /\ UNCHANGED <<heap, functions, function_index_by_name, global_constants>>
       \/ /\ ubk # "crash"
          /\ loader' = [nl EXCEPT !.oob = loader.oob \/ (ubk # "none" /\ what = "buf")]
          /\ heap' = h
          /\ functions' = fns
          /\ function_index_by_name' = idx
          /\ global_constants' = consts
    /\ UNCHANGED runVars

ParseStep(ubk, nl) ==
    LoadStep(ubk, "buf", nl, heap, functions, function_index_by_name, global_constants)

OobIf(cond) == IF cond THEN "either" ELSE "none"

\* Size, magic and version, then constCount.
load_open ==
    /\ loader.state = "open"
    /\ LET buf == loader.buf
       IN IF Len(buf) < 5 THEN ParseStep("none", Rejected)
          ELSE IF SubSeq(buf, 1, 4) # Magic THEN ParseStep("none", Rejected)
          ELSE IF read_u8(buf, 4) # 1 THEN ParseStep("none", Rejected)
          ELSE ParseStep(OobIf(Outside(buf, 5, 4)),
                         [loader EXCEPT !.state = "consts", !.off = 9, !.i = 0,
                                        !.constCount = read_u32(buf, 5)])

\* One turn of the loop over the constants.
load_constant ==
    /\ loader.state = "consts"
    /\ U32Lt(loader.i, loader.constCount)
    /\ LET buf == loader.buf
           off == loader.off + 1
           t == read_u8(buf, loader.off)
           tagOob == Outside(buf, loader.off, 1)
           add(value, width, oob) ==
               [nl |-> [loader EXCEPT !.constPool = Append(@, value), !.off = off + width,
                                      !.i = loader.i + 1],
                ub |-> OobIf(tagOob \/ oob)]
       IN CASE t = 1 -> LET r == add(createINT(read_i32(buf, off)), 4, Outside(buf, off, 4))
                        IN ParseStep(r.ub, r.nl)
            [] t = 2 -> LET r == add(createDOUBLE(read_double(buf, off)), 8,
                                     Outside(buf, off, 8))
                        IN ParseStep(r.ub, r.nl)
            [] t = 3 -> LET len == read_u32(buf, off)
                            s == ReadBytes(buf, off + 4, len)
                            os == CHOOSE id \in AllocIds(heap) : TRUE
                            r == add(createOBJECT(os), 4 + len,
                                     Outside(buf, off, 4) \/ Outside(buf, off + 4, len))
                        IN LoadStep(r.ub, "buf", r.nl, allocNewObject(heap, os, ObjString(s)),
                                    functions, function_index_by_name,
                                    global_constants)
            [] t = 4 -> LET r == add(createNIL, 0, FALSE) IN ParseStep(r.ub, r.nl)
            [] t = 5 -> LET r == add(createBOOL(read_u8(buf, off) # 0), 1,
                                     Outside(buf, off, 1))
                        IN ParseStep(r.ub, r.nl)
            [] OTHER -> ParseStep(OobIf(tagOob), Rejected)

\* The constants are read: fnCount.
load_fn_count ==
    /\ loader.state = "consts"
    /\ ~U32Lt(loader.i, loader.constCount)
    /\ ParseStep(OobIf(Outside(loader.buf, loader.off, 4)),
                 [loader EXCEPT !.state = "headers", !.off = @ + 4, !.i = 0,
                                !.fnCount = read_u32(loader.buf, loader.off)])

\* One turn of the loop over the function headers.
load_fn_header ==
    /\ loader.state = "headers"
    /\ U32Lt(loader.i, loader.fnCount)
    /\ LET buf == loader.buf
           off == loader.off
           h == [nameIndex |-> read_u32(buf, off), start |-> read_u32(buf, off + 4),
                 size |-> read_u32(buf, off + 8), argCount |-> read_u8(buf, off + 12),
                 localCount |-> read_u8(buf, off + 13)]
       IN ParseStep(OobIf(Outside(buf, off, 14)),
                    [loader EXCEPT !.headers = Append(@, h), !.off = off + 14,
                                   !.i = loader.i + 1])

\* The headers are read: codeSize and the code section.
load_code ==
    /\ loader.state = "headers"
    /\ ~U32Lt(loader.i, loader.fnCount)
    /\ LET buf == loader.buf
           off == loader.off + 4
           codeSize == read_u32(buf, loader.off)
           oob == OobIf(Outside(buf, loader.off, 4))
       IN IF codeSize < 0 \/ off + codeSize > Len(buf) THEN ParseStep(oob, Rejected)
          ELSE ParseStep(oob, [loader EXCEPT !.state = "build", !.i = 0,
                                             !.codeSize = codeSize,
                                             !.code = SubSeq(buf, off + 1, off + codeSize),
                                             !.off = off + codeSize])

\* The slice taken at code.begin() + start with size bytes, unshifted.
code_slice_at_begin(code, start, size) ==
    [k \in 1..size |-> IF k <= Len(code) THEN code[k] ELSE 0]

\* fn->code.assign(code.begin() + h.start, code.begin() + h.start + h.size):
\* the iterators are not wrapped; past the end of code lies other memory.
code_slice(code, start, size) ==
    [k \in 1..size |-> IF start >= 0 /\ start + k <= Len(code) THEN code[start + k] ELSE 0]

\* One turn of the loop that creates the Function entries.
build_function ==
    /\ loader.state = "build"
    /\ U32Lt(loader.i, loader.fnCount)
    /\ LET h == loader.headers[loader.i + 1]
           constPool == loader.constPool
           code == loader.code
           on == constPool[h.nameIndex + 1]
           fn == Function(heap[on.object].value, code_slice(code, h.start, h.size),
                          h.argCount, h.localCount)
           idx == Len(functions)
       IN IF U32Le(Len(constPool), h.nameIndex) THEN ParseStep("none", Rejected)
          ELSE IF on.type # "OBJECT" THEN ParseStep("none", Rejected)
          ELSE IF ~IsKind(on, "String") THEN ParseStep("none", Rejected)
          ELSE IF U32Lt(Len(code), U32Add(h.start, h.size)) THEN ParseStep("none", Rejected)
          ELSE LoadStep(IF h.size < 0 THEN "crash"
                        ELSE OobIf(h.size > 0 /\ SumExceeds(h.start, h.size, Len(code))),
                        "code", [loader EXCEPT !.i = loader.i + 1],
                        heap, Append(functions, fn),
                        MapPut(function_index_by_name, fn.name, idx), global_constants)

\* The functions are built: the constants go to global_constants; return true.
load_publish ==
    /\ loader.state = "build"
    /\ ~U32Lt(loader.i, loader.fnCount)
    /\ LoadStep("none", "buf", [loader EXCEPT !.state = "ok"], heap, functions,
                function_index_by_name, global_constants \o loader.constPool)

NextLoad ==
    \/ load_open
    \/ load_constant
    \/ load_fn_count
    \/ load_fn_header
    \/ load_code
    \/ build_function
    \/ load_publish

\* load_dbc_file runs to its return.
SpecLoad == InitLoad /\ [][NextLoad]_vars /\ WF_vars(NextLoad)

(***************************************************************************)
(* The allocations: a run of main over the opcodes that allocate, and a    *)
(* load of a file in a build whose collector threshold is LowThreshold, so *)
(* that the constants the loader allocates pass it.                        *)
(***************************************************************************)
LowThreshold == 1

NextAllocating ==
    \/ collect_garbage_if_needed
    \/ run_exit
    \/ end_of_code
    \/ OP_POP
    \/ OP_NEW_OBJECT
    \/ OP_NEW_ARRAY
    \/ OP_NEW_MAP
    \/ OP_STRING_CONCAT
    \/ OP_default

InitAlloc == InitVM \/ InitLoadAt(LowThreshold)

NextAlloc == NextAllocating \/ NextLoad

SpecAlloc == InitAlloc /\ [][NextAlloc]_vars

(***************************************************************************)
(* The mark phase, one call of GC::markValue a step.  The heap holds an    *)
(* array, a map and an instance, each owning references drawn among the    *)
(* three, so that every cycle through them occurs; the roots are the slots *)
(* of VM::stack below VM::sp and the globals.  gc_log holds the collection *)
(* under way: the Values markValue has still to be called on, innermost    *)
(* call first, and for each object the number of calls of its              *)
(* markChildren.                                                           *)
(***************************************************************************)
GraphRefs == {createOBJECT(1), createOBJECT(2), createOBJECT(3)}

OwnedSeqs == {<<>>} \cup {<<x>> : x \in GraphRefs} \cup {<<x, y>> : x, y \in GraphRefs}
OwnedMaps == {EmptyMap} \cup {MapPut(EmptyMap, "k", x) : x \in GraphRefs}

\* The Values markChildren hands to the marker, in the order of its loop.
Enumerated(o) ==
    LET handed == markChildren(o)
    IN IF o.kind = "Array" THEN SelectSeq(o.value, LAMBDA v : v \in handed)
       ELSE CHOOSE q \in [1..Cardinality(handed) -> handed] : Range(q) = handed

InitMark ==
    /\ \E elems \in OwnedSeqs, m \in OwnedMaps, f \in OwnedMaps :
          heap = [o \in ObjIds |-> IF o = 1 THEN ObjArray(elems)
                                   ELSE IF o = 2 THEN ObjMap(m)
                                   ELSE IF o = 3 THEN ObjInstance("Object", f)
                                   ELSE NoObject]
    /\ stack \in OwnedSeqs
    /\ sp = Len(stack)
    /\ globals \in OwnedMaps
    /\ gc_log = [ran |-> TRUE, before |-> heap,
                 roots |-> root_walker(stack, sp, globals),
                 pending |-> stack \o Enumerated(ObjMap(globals)),
                 visits |-> [o \in ObjIds |-> 0]]
    /\ pc = "marking"
    /\ global_constants = <<>>
    /\ functions = <<>>
    /\ function_index_by_name = EmptyMap
    /\ stack_internal = <<>>
    /\ sp_internal = 0
    /\ native_functions_registry = NoNatives
    /\ register_log = <<>>
    /\ native_log = <<>>
    /\ cerr = <<>>
    /\ ffi = [v \in VMs |-> NoLibs]
    /\ ffi_log = <<>>
    /\ memThresholdForNextGcCall = GcThreshold
    /\ call_frames = <<>>
    /\ call_log = <<>>
    /\ ub = FALSE
    /\ code_left = 0
    /\ last = NoLast
    /\ trail = <<>>
    /\ ret_log = NoRet
    /\ loader = NoLoader

markVars == <<stack_internal, sp_internal, stack, sp, call_frames, globals, functions,
              function_index_by_name, global_constants, native_functions_registry,
              register_log, memThresholdForNextGcCall, ub, code_left, last, trail,
              native_log, cerr, ffi, ffi_log, call_log, ret_log, loader>>

\* GC::markValue(v): an Object that is not marked is marked and asked for its
\* children, each of which is handed to markValue in turn.
markValue ==
    /\ pc = "marking"
    /\ gc_log.pending # <<>>
    /\ LET v == Head(gc_log.pending)
           rest == Tail(gc_log.pending)
       IN IF v.type = "OBJECT" /\ v.object # NULL /\ ~heap[v.object].marked
          THEN /\ heap' = [heap EXCEPT ![v.object].marked = TRUE]
               /\ gc_log' = [gc_log EXCEPT
                                !.pending = Enumerated(heap[v.object]) \o rest,
                                !.visits[v.object] = @ + 1]
          ELSE /\ heap' = heap
               /\ gc_log' = [gc_log EXCEPT !.pending = rest]
    /\ UNCHANGED pc
    /\ UNCHANGED markVars

\* GC::markAll returns: the root walker has handed over every root.
markAll_returns ==
    /\ pc = "marking"
    /\ gc_log.pending = <<>>
    /\ pc' = "marked"
    /\ UNCHANGED <<heap, gc_log>>
    /\ UNCHANGED markVars

NextMark == markValue \/ markAll_returns

SpecMark == InitMark /\ [][NextMark]_vars /\ WF_vars(NextMark)

(***************************************************************************)
(* Runs over the bytes of a function: main's code is a sequence of up to   *)
(* MaxInstrs instructions among PUSH_CONST, POP, the three jumps and       *)
(* RETURN, and the frame's ip walks it.  A byte of code is an opcode or an *)
(* operand byte; the numbers of the opcodes are not part of the model.     *)
(* Jump targets are drawn among the starts of instructions, offsets past   *)
(* the end of the code, and values of 256 and more.                        *)
(***************************************************************************)
MaxInstrs == 2

OpByte(name) == [op |-> name]
ImmByte(b) == [byte |-> b]
emit_u32(v) == [k \in 1..4 |-> ImmByte(U32Bytes(v)[k])]

JumpOps == {"JUMP", "JUMP_IF_FALSE", "JUMP_IF_TRUE"}
JumpTargets == {0, 5, 10, 200, 256}

Instructions ==
    {<<OpByte("POP")>>}
    \cup {<<OpByte("PUSH_CONST")>> \o emit_u32(k) : k \in {0, 1}}
    \cup {<<OpByte(j)>> \o emit_u32(t) : j \in JumpOps, t \in JumpTargets}
    \cup {<<OpByte("RETURN"), ImmByte(r)>> : r \in {0, 1}}

\* The u32 in the four operand bytes after the opcode at offset at.
OperandU32(c, at) == U32OfBytes([k \in 1..4 |-> c[at + 1 + k].byte], 0)

\* Every jump of the instruction list q lands, as the interpreter reads its
\* target, on the start of an instruction or past the end of the code.
LandsOnInstruction(q) ==
    LET starts == {Len(Flatten(SubSeq(q, 1, k))) : k \in 0..(Len(q) - 1)}
    IN \A k \in 1..Len(q) :
          q[k][1].op \in JumpOps =>
              LET t == OperandU32(q[k], 0) % U8
              IN t \in starts \/ t >= Len(Flatten(q))

Programs ==
    {Flatten(q) : q \in {r \in SeqsUpTo(Instructions, MaxInstrs) : LandsOnInstruction(r)}}

JumpStacks == {<<>>, <<createNIL>>, <<createINT(1)>>}

InitJump ==
    /\ global_constants = <<createINT(0), createINT(1)>>
    /\ heap = [o \in ObjIds |-> NoObject]
    /\ \E code \in Programs : functions = <<Function("main", code, 0, 0)>>
    /\ function_index_by_name = [n \in {"main"} |-> 0]
    /\ stack_internal \in JumpStacks
    /\ sp_internal = Len(stack_internal)
    /\ trail = <<>>
    /\ InitFields
    /\ code_left = MaxCode

\* CallFrame &frame = call_frames.back(); Function *func = frame.function;
TopFrame == call_frames[Len(call_frames)]
Code == functions[TopFrame.function + 1].code

\* The opcode read_u8 fetches at frame.ip is name.
Decoding(name) ==
    /\ Fetching
    /\ TopFrame.ip < Len(Code)
    /\ Code[TopFrame.ip + 1] = OpByte(name)

\* The instruction leaves frame.ip at ip and the frames as they are.
SetIp(ip) ==
    /\ call_frames' = [call_frames EXCEPT ![Len(call_frames)].ip = ip]
    /\ UNCHANGED <<call_log, globals, heap>>
    /\ ret_log' = NoRet
    /\ ub' = FALSE
    /\ native_log' = <<>>

\* if (frame.ip >= func->code.size()) { do_return(0); continue; }
frame_end_of_code ==
    /\ Fetching
    /\ TopFrame.ip >= Len(Code)
    /\ do_return("END", <<>>, 0)

frame_PUSH_CONST ==
    /\ Decoding("PUSH_CONST")
    /\ LET raw == OperandU32(Code, TopFrame.ip)
           idx == raw % U8
       IN IF idx >= Len(global_constants)
          THEN Completes("PUSH_CONST", <<raw>>, "bad index", push_back(S0, createNIL))
          ELSE Completes("PUSH_CONST", <<raw>>, "ok",
                         push_back(S0, global_constants[idx + 1]))
    /\ SetIp(TopFrame.ip + 5)

frame_POP ==
    /\ Decoding("POP")
    /\ PopsInside
    /\ Completes("POP", <<>>, "ok", pop_back(S0))
    /\ SetIp(TopFrame.ip + 1)

frame_RETURN ==
    /\ Decoding("RETURN")
    /\ PopsInside
    /\ do_return("RETURN", <<Code[TopFrame.ip + 2].byte>>, Code[TopFrame.ip + 2].byte)

\* uint32_t target = read_u32(frame): the low byte of the operand.
OP_JUMP ==
    /\ Decoding("JUMP")
    /\ Completes("JUMP", <<OperandU32(Code, TopFrame.ip)>>, "taken", S0)
    /\ SetIp(OperandU32(Code, TopFrame.ip) % U8)

OP_JUMP_IF_FALSE ==
    /\ Decoding("JUMP_IF_FALSE")
    /\ PopsInside
    /\ LET raw == OperandU32(Code, TopFrame.ip)
           taken == ~isTruthy(popped(S0))
       IN /\ Completes("JUMP_IF_FALSE", <<raw>>, IF taken THEN "taken" ELSE "not taken",
                       pop_back(S0))
          /\ SetIp(IF taken THEN raw % U8 ELSE TopFrame.ip + 5)

OP_JUMP_IF_TRUE ==
    /\ Decoding("JUMP_IF_TRUE")
    /\ PopsInside
    /\ LET raw == OperandU32(Code, TopFrame.ip)
           taken == isTruthy(popped(S0))
       IN /\ Completes("JUMP_IF_TRUE", <<raw>>, IF taken THEN "taken" ELSE "not taken",
                       pop_back(S0))
          /\ SetIp(IF taken THEN raw % U8 ELSE TopFrame.ip + 5)

NextJump ==
    \/ collect_garbage_if_needed
    \/ run_exit
    \/ frame_end_of_code
    \/ frame_PUSH_CONST
    \/ frame_POP
    \/ frame_RETURN
    \/ OP_JUMP
    \/ OP_JUMP_IF_FALSE
    \/ OP_JUMP_IF_TRUE

SpecJump == InitJump /\ [][NextJump]_vars

(***************************************************************************)
(* C1.  Frame linearity: after CALL fn, argc with argc <= sp_before and    *)
(* the matching RETURN r, sp = sp_before - argc + r, the frame stack is as *)
(* deep as before the CALL, the caller's slots below sp_before - argc are  *)
(* unchanged, and the r values on top are the callee's top r values in     *)
(* their order.                                                            *)
(***************************************************************************)
MatchedReturn ==
    /\ pc = "loop"
    /\ last.op = "RETURN"
    /\ ret_log.done
    /\ ret_log.call.byCall
    /\ ret_log.call.argc <= ret_log.call.sp

C1_FrameLinearity ==
    MatchedReturn =>
        LET c == ret_log.call
            r == ret_log.return_count
            base == c.sp - c.argc
        IN /\ sp_internal = base + r
           /\ Len(call_frames) = c.depth
           /\ \A i \in 1..base : stack_internal[i] = c.stk[i]
           /\ \A k \in 1..r :
                 ret_log.sp - r + k >= 1
                     => stack_internal[base + k] = ret_log.stk[ret_log.sp - r + k]

(***************************************************************************)
(* The roots the interpreter works from: the operand stack of run() below  *)
(* sp_internal, the globals and the constant pool.                         *)
(***************************************************************************)
VisibleValues ==
    {stack_internal[i] : i \in 1..Min(sp_internal, Len(stack_internal))}
        \cup Range(globals) \cup Range(global_constants)

\* The objects of heap h reachable from a set of Values.
Reachable(h, values) == markAll(h, {}, ObjectsOf(values))

Collected == pc = "fetch" /\ gc_log.ran

(***************************************************************************)
(* C2.  GC soundness: after a collection during run(), every object that   *)
(* was reachable from the operand stack below sp, the globals or the       *)
(* constant pool is still in the heap, and none of these Values points at  *)
(* a destroyed object.                                                     *)
(***************************************************************************)
C2_GCSoundness ==
    Collected =>
        /\ Reachable(gc_log.before, VisibleValues) \subseteq Live(heap)
        /\ \A v \in VisibleValues : ~Dangling(v)

(***************************************************************************)
(* C3.  GC completeness: after collect() the heap holds exactly the        *)
(* objects reachable from the operand stack below sp, the globals and the  *)
(* constant pool, and no surviving object is left marked.                  *)
(***************************************************************************)
C3_GCCompleteness ==
    Collected =>
        /\ Live(heap) = Reachable(gc_log.before, VisibleValues)
        /\ \A o \in Live(heap) : ~heap[o].marked

(***************************************************************************)
(* C4.  Stack balance: an opcode with a declared net stack effect, run on  *)
(* a stack that holds its operands, changes sp by exactly that effect on   *)
(* its success path and on every failure path.                             *)
(***************************************************************************)
\* The operands an instruction takes from the stack.
OperandCount(op, raw) ==
    CASE op \in ArithOps \cup {"ARRAY_GET", "MAP_GET", "STRING_CONCAT", "STRING_EQ",
                               "SET_FIELD"} -> 2
      [] op \in {"ARRAY_SET", "MAP_SET"} -> 3
      [] op \in {"GET_FIELD", "IS_INSTANCE", "STRING_LENGTH", "POP", "STORE_GLOBAL"} -> 1
      [] op \in {"CALL", "CALL_NATIVE"} -> raw[2]
      [] OTHER -> 0

\* The declared net effect on sp.
DeclaredEffect(op, raw) ==
    CASE op \in ArithOps \cup {"ARRAY_GET", "MAP_GET", "STRING_CONCAT", "STRING_EQ",
                               "POP", "STORE_GLOBAL"} -> -1
      [] op = "SET_FIELD" -> -2
      [] op \in {"ARRAY_SET", "MAP_SET"} -> -3
      [] op \in {"GET_FIELD", "IS_INSTANCE", "STRING_LENGTH"} -> 0
      [] op \in {"PUSH_CONST", "LOAD_GLOBAL", "NEW_OBJECT", "NEW_ARRAY", "NEW_MAP"} -> 1
      [] op \in {"CALL", "CALL_NATIVE"} -> 1 - raw[2]

\* The instruction just completed has a fixed declared effect: every opcode of
\* the table but RETURN and CALL of a function of the table, and CALL_NATIVE of
\* a registered native.
HasDeclaredEffect ==
    /\ pc = "loop"
    /\ last.op \notin {"none", "END", "RETURN", "UNKNOWN"}
    /\ last.op = "CALL" => U32Le(Len(functions), last.raw[1])
    /\ last.op = "CALL_NATIVE" => last.path # "native"
    /\ last.sp >= OperandCount(last.op, last.raw)

C4_StackBalance ==
    HasDeclaredEffect => sp_internal = last.sp + DeclaredEffect(last.op, last.raw)

(***************************************************************************)
(* C5.  The interpreter never aborts on a run-time anomaly: whatever the   *)
(* variants of the operands, an opcode completes and the loop goes on;     *)
(* STRING_CONCAT and STRING_EQ of a non-String object and SET_FIELD with a *)
(* name index outside the constant pool reach no crash or undefined state. *)
(***************************************************************************)
\* No pointer of the VM dangles and sp_internal lies inside the vector: the
\* operands of the instruction are Values of the eight variants.
OperandsAreValues ==
    /\ \A o \in ObjIds : heap[o] # NoObject => ~heap[o].destroyed
    /\ PopsInside

C5_NeverAborts ==
    (OperandsAreValues /\ last.op \in {"STRING_CONCAT", "STRING_EQ", "SET_FIELD"})
        => (pc # "crashed" /\ ~ub)

(***************************************************************************)
(* C6.  An opcode byte outside the table is fatal: run() stops there, the  *)
(* operand stack and sp are as before the fetch, and no instruction of any *)
(* frame is executed afterwards.                                           *)
(***************************************************************************)
C6_UnknownOpcodeFatal ==
    [][/\ (pc = "fetch" /\ last'.op = "UNKNOWN")
            => /\ pc' = "halted"
               /\ stack_internal' = stack_internal
               /\ sp_internal' = sp_internal
               /\ call_frames' = call_frames
       /\ pc = "halted" => UNCHANGED vars]_vars

C6_Witness ==
    /\ pc = "halted"
    /\ last.op = "UNKNOWN"
    /\ sp_internal > 0
    /\ Len(call_frames) > 1
    /\ code_left > 0

(***************************************************************************)
(* C7.  A failed load constructs no Module: when load_dbc_file returns     *)
(* false, the function table, the name index and the constant pool are as  *)
(* before the call (here: empty), also when the failing header is not the  *)
(* first.                                                                  *)
(***************************************************************************)
C7_FailedLoadBuildsNothing ==
    loader.state = "error" =>
        /\ functions = <<>>
        /\ DOMAIN function_index_by_name = {}
        /\ global_constants = <<>>

(***************************************************************************)
(* C8.  Whatever the u32 values of a header's code_start and code_size,    *)
(* no Function is created from a header whose code_start + code_size, as a *)
(* sum of numbers, exceeds the length of the code section: the file is     *)
(* rejected at that header, wraparound of the 32-bit sum notwithstanding.  *)
(***************************************************************************)
C8_SliceCheckNotWrapped ==
    loader.state # "idle" =>
        \A k \in 1..Len(functions) :
            ~SumExceeds(loader.headers[k].start, loader.headers[k].size, Len(loader.code))

(***************************************************************************)
(* C9.  For every input, cut anywhere, the loader accepts or returns an    *)
(* error, and it never reads buf at an offset >= its length.               *)
(***************************************************************************)
C9_NoReadPastInput ==
    loader.state # "idle" =>
        /\ ~loader.oob
        /\ ~(loader.state = "crashed" /\ loader.fault = "buf")

(***************************************************************************)
(* C10.  Loader round-trip: the encoding of a well-formed module           *)
(* description is loaded without error; the Module has the description's   *)
(* functions in declaration order, each with its name, arg_count,          *)
(* local_count and code bytes; the name index maps each name to the        *)
(* function of that name (the last declared, if the name is declared       *)
(* twice); the constant pool equals the description's element-wise,        *)
(* Strings by content.                                                     *)
(***************************************************************************)
\* A constant of a description as a Value, a String by its content.
ConstOf(c) ==
    CASE c.tag = 1 -> createINT(c.i)
      [] c.tag = 2 -> createDOUBLE(c.d)
      [] c.tag = 3 -> [type |-> "STRING", value |-> c.s]
      [] c.tag = 4 -> createNIL
      [] c.tag = 5 -> createBOOL(c.b)

Content(v) ==
    IF IsKind(v, "String") THEN [type |-> "STRING", value |-> heap[v.object].value] ELSE v

\* The i-th function a description declares.
DeclaredFunction(d, i) ==
    LET h == d.fns[i]
    IN Function(d.consts[h.nameIndex + 1].s, SubSeq(d.code, h.start + 1, h.start + h.size),
                h.argCount, h.localCount)

RoundTrip ==
    LET d == loader.desc
        names == {functions[i].name : i \in 1..Len(functions)}
    IN /\ Len(functions) = Len(d.fns)
       /\ \A i \in 1..Len(d.fns) : functions[i] = DeclaredFunction(d, i)
       /\ DOMAIN function_index_by_name = names
       /\ \A n \in names :
             /\ function_index_by_name[n] \in 0..(Len(functions) - 1)
             /\ functions[function_index_by_name[n] + 1].name = n
             /\ \A i \in 1..Len(functions) :
                   functions[i].name = n => i <= function_index_by_name[n] + 1
       /\ Len(global_constants) = Len(d.consts)
       /\ \A k \in 1..Len(d.consts) : Content(global_constants[k]) = ConstOf(d.consts[k])

LoadingWellFormed == loader.state # "idle" /\ loader.wellFormed

C11_LocalsCoverArgs ==
    loader.state = "ok" =>
        \A i \in 1..Len(functions) : functions[i].localCount >= functions[i].argCount

(***************************************************************************)
(* C12.  Calling convention: right after CALL fn, argc with fn in the      *)
(* function table and argc <= sp, the top frame has ip = 0 and             *)
(* local_base = sp_before - argc; locals 0..argc-1 are the arguments,      *)
(* unmoved; sp = local_base + max(local_count, argc); and the locals       *)
(* argc..local_count-1 are Nil, whatever earlier returns left there.       *)
(***************************************************************************)
\* The instruction just completed is CALL fn, argc with fn in the table.
ValidCall ==
    /\ pc = "loop"
    /\ last.op = "CALL"
    /\ U32Lt(last.raw[1], Len(functions))
    /\ last.raw[2] <= last.sp

C12_CallingConvention ==
    ValidCall =>
        LET argc == last.raw[2]
            callee == functions[last.raw[1] + 1]
            before == call_log[Len(call_log)].stk
            top == call_frames[Len(call_frames)]
            local_base == last.sp - argc
        IN /\ Len(call_frames) = call_log[Len(call_log)].depth + 1
           /\ top.ip = 0
           /\ top.localStartsAt = local_base
           /\ \A k \in 1..argc : stack_internal[local_base + k] = before[local_base + k]
           /\ sp_internal = local_base + Max(callee.localCount, argc)
           /\ \A k \in (argc + 1)..callee.localCount :
                 stack_internal[local_base + k] = createNIL

(***************************************************************************)
(* C13.  No instruction executed in a frame reads, pops or overwrites an   *)
(* operand-stack slot below that frame's local_base: the slots below the   *)
(* base keep their Values, sp does not sink below the base, and RETURN r   *)
(* takes its r values from the frame's own slots.                          *)
(***************************************************************************)
\* An instruction is about to run in a frame whose base lies within the stack.
InsideFrame ==
    /\ pc = "fetch"
    /\ call_frames # <<>>
    /\ call_frames[Len(call_frames)].localStartsAt >= 0
    /\ call_frames[Len(call_frames)].localStartsAt <= sp_internal

StaysAboveBase ==
    LET local_base == call_frames[Len(call_frames)].localStartsAt
    IN /\ \A i \in 1..local_base : stack_internal'[i] = stack_internal[i]
       /\ Len(call_frames') = Len(call_frames) => sp_internal' >= local_base
       /\ ret_log'.done =>
             \A k \in 1..ret_log'.return_count :
                 sp_internal - k + 1 >= 1 => sp_internal - k + 1 > local_base

C13_FrameIsolation == [][InsideFrame => StaysAboveBase]_vars

(***************************************************************************)
(* C14.  Arithmetic result typing: ADD, SUB, MUL and MOD on operands none  *)
(* of which is a Double push an Int; DIV always pushes a Double, Int       *)
(* divided by Int zero included, and does not trap; with a Double operand  *)
(* all five push a Double; a Nil, Bool or Object operand counts as 0.      *)
(***************************************************************************)
\* The operands the last instruction popped: b first, then a.
OperandB == popped([stk |-> trail[Len(trail)].stk, sp |-> trail[Len(trail)].sp])
OperandA == popped(pop_back([stk |-> trail[Len(trail)].stk, sp |-> trail[Len(trail)].sp]))

\* A non-numeric operand read as the number 0.
AsNumber(v) == IF v.type \in {"INT", "DOUBLE"} THEN v ELSE createINT(0)

\* a op b in the reals extended with the IEEE infinities and nan.
Exact(op, a, b) ==
    LET x == IF a.type = "DOUBLE" THEN a.d ELSE DoubleOfInt(a.i)
        y == IF b.type = "DOUBLE" THEN b.d ELSE DoubleOfInt(b.i)
    IN CASE op = "ADD" -> DAdd(x, y)
         [] op = "SUB" -> DSub(x, y)
         [] op = "MUL" -> DMul(x, y)
         [] op = "DIV" -> DDiv(x, y)
         [] op = "MOD" -> DMod(x, y)

ArithExecuted == last.op \in ArithOps /\ pc \in {"loop", "crashed"}

C14_ArithmeticTyping ==
    ArithExecuted =>
        LET a == AsNumber(OperandA)
            b == AsNumber(OperandB)
            anyDouble == OperandA.type = "DOUBLE" \/ OperandB.type = "DOUBLE"
            result == stack_internal[sp_internal]
            exact == Exact(last.op, a, b)
        IN /\ pc = "loop"
           /\ sp_internal >= 1
           /\ (anyDouble \/ last.op = "DIV") <=> result.type = "DOUBLE"
           /\ ~(anyDouble \/ last.op = "DIV") <=> result.type = "INT"
           /\ result.type = "DOUBLE" => result.d = exact
           /\ (result.type = "INT" /\ ~ub) => result.i = DTrunc(exact)

\* Int 2 divided by Int 0 has pushed the Double +inf.
C14_Witness ==
    /\ ArithExecuted
    /\ last.op = "DIV"
    /\ OperandA = createINT(2)
    /\ OperandB = createINT(0)
    /\ stack_internal[sp_internal] = createDOUBLE(Frac(1, 0))

(***************************************************************************)
(* C15.  For every Value v on top of the stack, NOT executed twice leaves  *)
(* Bool(truthy(v)) on top and sp unchanged; truthy is false for Nil, the   *)
(* Bool itself, i != 0 for an Int, d != 0.0 for a Double and "not null"    *)
(* for an Object reference.                                                *)
(***************************************************************************)
Truthy(v) ==
    CASE v.type = "NIL" -> FALSE
      [] v.type = "BOOL" -> v.b
      [] v.type = "INT" -> v.i # 0
      [] v.type = "DOUBLE" -> v.d # Frac(0, 1)
      [] v.type = "OBJECT" -> v.object # NULL

\* The last n instructions were all op and completed; the first met a stack
\* of at least depth Values.
Repeated(op, n, depth) ==
    /\ pc = "loop"
    /\ Len(trail) > n
    /\ \A k \in 0..(n - 1) :
          /\ trail[Len(trail) - k].op = op
          /\ trail[Len(trail) - k].path = "ok"
    /\ trail[Len(trail) - n + 1].sp >= depth

\* The stack the first of the last n instructions met.
StackBefore(n) == trail[Len(trail) - n + 1]

C15_NotTwice ==
    Repeated("NOT", 2, 1) =>
        LET v == StackBefore(2).stk[StackBefore(2).sp]
        IN /\ sp_internal = StackBefore(2).sp
           /\ stack_internal[sp_internal] = createBOOL(Truthy(v))

\* NOT NOT of the Double nan has left true, NOT NOT of a String has left true.
C15_Witness ==
    /\ Repeated("NOT", 2, 1)
    /\ StackBefore(2).stk[StackBefore(2).sp] \in {createDOUBLE(DNaN), createOBJECT(1)}
    /\ StackBefore(2).sp = RotOperands
    /\ stack_internal[sp_internal] = createBOOL(TRUE)

(***************************************************************************)
(* C16.  DUP then POP leaves the operand stack unchanged: sp and every     *)
(* slot below sp, for every stack, the empty one included.                 *)
(***************************************************************************)
\* The last two instructions were first and then second, both completed.
Sequenced(first, second) ==
    /\ pc = "loop"
    /\ Len(trail) > 2
    /\ trail[Len(trail) - 1].op = first
    /\ trail[Len(trail) - 1].path = "ok"
    /\ trail[Len(trail)].op = second
    /\ trail[Len(trail)].path = "ok"

\* The stack is what the n-th instruction from the end met, up to its sp.
SameStackAs(n) ==
    /\ sp_internal = StackBefore(n).sp
    /\ \A i \in 1..sp_internal : stack_internal[i] = StackBefore(n).stk[i]

C16_DupPop == Sequenced("DUP", "POP") => SameStackAs(2)

\* DUP then POP have run on the empty stack.
C16_Witness ==
    /\ Sequenced("DUP", "POP")
    /\ StackBefore(2).sp = 0
    /\ sp_internal = 0

(***************************************************************************)
(* C17.  SWAP executed twice is the identity on the operand stack; ROT     *)
(* maps the top three values a b c (c on top) to b c a; ROT executed three *)
(* times is the identity on the operand stack.                             *)
(***************************************************************************)
\* ROT has turned the three Values on top of the stack it met.
Rotated ==
    LET before == StackBefore(1)
        n == before.sp
    IN /\ sp_internal = n
       /\ stack_internal[n - 2] = before.stk[n - 1]
       /\ stack_internal[n - 1] = before.stk[n]
       /\ stack_internal[n] = before.stk[n - 2]
       /\ \A i \in 1..(n - 3) : stack_internal[i] = before.stk[i]

\* C17 as stated: the laws on every stack, however few Values it holds.
C17_SwapRotOnAnyStack ==
    /\ Repeated("SWAP", 2, 0) => SameStackAs(2)
    /\ Repeated("ROT", 1, RotOperands) => Rotated
    /\ Repeated("ROT", 3, 0) => SameStackAs(3)

\* C17 as it holds: the laws on a stack that holds the Values the
\* instruction takes, two for SWAP and three for ROT.
C17_SwapRotLaws ==
    /\ Repeated("SWAP", 2, 2) => SameStackAs(2)
    /\ Repeated("ROT", 1, RotOperands) => Rotated
    /\ Repeated("ROT", 3, RotOperands) => SameStackAs(3)

\* Three ROTs have run on three Values no two of which are equal.
C17_Witness ==
    /\ Repeated("ROT", 3, RotOperands)
    /\ Cardinality({StackBefore(3).stk[i] : i \in 1..RotOperands}) = RotOperands
    /\ SameStackAs(3)

(***************************************************************************)
(* C18.  Every u32 immediate is decoded as the full little-endian 32-bit   *)
(* value of its four bytes: for every idx below the pool size, values of   *)
(* 256 and more included, PUSH_CONST idx has pushed constant idx.  (The    *)
(* jump targets pass through the same read_u32.)                           *)
(***************************************************************************)
C18_FullWidthImmediates ==
    (/\ pc = "loop"
     /\ last.op = "PUSH_CONST"
     /\ last.sp >= 0
     /\ U32Lt(last.raw[1], Len(global_constants)))
        => /\ last.path = "ok"
           /\ sp_internal = last.sp + 1
           /\ stack_internal[sp_internal] = global_constants[last.raw[1] + 1]

(***************************************************************************)
(* C19.  Native contract: each native of register_native_functions (print, *)
(* println, str, len, input, append, forEach, and exit when it returns)    *)
(* pops exactly argc Values and pushes exactly one result, for every argc  *)
(* and every list length: sp after CALL_NATIVE is sp_before - argc + 1.    *)
(***************************************************************************)
\* CALL_NATIVE has invoked a callable that found its argc Values and returned.
NativeReturned ==
    /\ pc = "loop"
    /\ last.op = "CALL_NATIVE"
    /\ last.path = "native"
    /\ native_log # <<>>
    /\ last.raw[2] <= last.sp

C19_NativeContract ==
    (NativeReturned /\ native_log[1].fn \in {BuiltIns[k].fn : k \in 1..Len(BuiltIns)})
        => sp_internal = last.sp - last.raw[2] + 1

(***************************************************************************)
(* C20.  CALL_NATIVE name_idx, argc: a registered name has its callable    *)
(* invoked exactly once with argc, and the callable is done before the     *)
(* next opcode is fetched; a name that is not registered, or a name_idx    *)
(* outside the constant pool, pops exactly argc Values, pushes Nil and     *)
(* invokes no native; of two registrations of a name the later one is the  *)
(* callable invoked.                                                       *)
(***************************************************************************)
\* The callable the last register_native of name stored, "" if there is none.
RECURSIVE LastRegistered(_, _)
LastRegistered(log, name) ==
    IF log = <<>> THEN ""
    ELSE IF log[Len(log)].name = name THEN log[Len(log)].fn
    ELSE LastRegistered(SubSeq(log, 1, Len(log) - 1), name)

\* The name CALL_NATIVE was given: the String constant at name_idx, "" when
\* name_idx lies outside the pool.
NameAt(name_idx) ==
    IF U32Lt(name_idx, Len(global_constants))
       /\ IsKind(global_constants[name_idx + 1], "String")
    THEN heap[global_constants[name_idx + 1].object].value
    ELSE ""

CallNativeExecuted ==
    /\ last.op = "CALL_NATIVE"
    /\ pc \in {"loop", "fetch", "exited", "crashed"}
    /\ last.raw[2] <= last.sp
    /\ U32Lt(last.raw[1], Len(global_constants))
           => IsKind(global_constants[last.raw[1] + 1], "String")

C20_NativeDispatch ==
    CallNativeExecuted =>
        LET fn == LastRegistered(register_log, NameAt(last.raw[1]))
        IN IF fn # ""
           THEN native_log = <<[fn |-> fn, argc |-> last.raw[2]]>>
           ELSE /\ native_log = <<>>
                /\ pc # "crashed"
                /\ sp_internal = last.sp - last.raw[2] + 1
                /\ stack_internal[sp_internal] = createNIL

(***************************************************************************)
(* C21.  Running an entry function: after call_function_by_index(main, 0)  *)
(* on an empty stack and run(), run() returns only when the frame stack is *)
(* empty or an unknown opcode was fetched; if main ended with RETURN 1 the *)
(* operand stack holds exactly one Value, sp = 1, the value main returned, *)
(* whatever main's local_count is.                                         *)
(***************************************************************************)
\* main, the frame call_function_by_index pushed, has just ended with RETURN 1.
MainReturnedOne ==
    /\ call_frames = <<>>
    /\ last.op = "RETURN"
    /\ last.raw = <<1>>
    /\ ret_log.done
    /\ ~ret_log.call.byCall

\* The value RETURN 1 took from the stack it met: its top, Nil when empty.
ReturnedValue ==
    IF ret_log.sp = 0 THEN createNIL ELSE ret_log.stk[ret_log.sp]

C21_RunEntry ==
    /\ pc = "done" => call_frames = <<>>
    /\ pc = "halted" => last.op = "UNKNOWN" /\ last.path = "fatal"
    /\ MainReturnedOne =>
           /\ sp_internal = 1
           /\ stack_internal[1] = ReturnedValue

\* run() has returned after main, declared with two locals, returned Int 1.
C21_Witness ==
    /\ pc = "done"
    /\ MainReturnedOne
    /\ functions[1].localCount = 2
    /\ ret_log.sp > 1
    /\ sp_internal = 1
    /\ stack_internal[1] = createINT(1)

(***************************************************************************)
(* C22.  Globals: LOAD_GLOBAL of a name never stored pushes Nil; after     *)
(* STORE_GLOBAL n of value v every later LOAD_GLOBAL m whose constant has  *)
(* the string content of constant n, at the same or another index and in   *)
(* any frame, pushes v until that name is stored again; STORE_GLOBAL       *)
(* changes no other global.  As steps: STORE_GLOBAL n binds the name of    *)
(* constant n to the value on top and nothing else, no other instruction   *)
(* changes a global, and LOAD_GLOBAL m pushes what the name of constant m  *)
(* is bound to, Nil when it is unbound.                                    *)
(***************************************************************************)
\* This step executes op to its end, on a stack whose sp lies within it.
Runs(op) ==
    /\ pc = "fetch"
    /\ pc' = "loop"
    /\ last'.op = op
    /\ sp_internal >= 0
    /\ sp_internal <= Len(stack_internal)

StoresByName ==
    (Runs("STORE_GLOBAL") /\ NameAt(last'.raw[1]) # "")
        => globals' = MapPut(globals, NameAt(last'.raw[1]), popped(S0))

OnlyStoreWrites ==
    ~(pc = "fetch" /\ last'.op = "STORE_GLOBAL") => globals' = globals

LoadsByName ==
    (Runs("LOAD_GLOBAL") /\ NameAt(last'.raw[1]) # "")
        => /\ sp_internal' = sp_internal + 1
           /\ stack_internal'[sp_internal'] =
                  IF NameAt(last'.raw[1]) \in DOMAIN globals
                  THEN globals[NameAt(last'.raw[1])] ELSE createNIL

C22_Globals == [][StoresByName /\ OnlyStoreWrites /\ LoadsByName]_vars

(***************************************************************************)
(* C23.  Arrays: ARRAY_GET with an index < 0 or >= length pushes Nil;      *)
(* ARRAY_SET at index i >= length grows the array to length i + 1, fills   *)
(* every new slot below i with Nil, leaves the elements it had unchanged   *)
(* and stores the value at i; after ARRAY_SET(arr, i, v) with i >= 0,      *)
(* ARRAY_GET(arr, i) pushes v.  The index is an Int Value.                 *)
(***************************************************************************)
\* This step executes op on an array and an Int index, the operands lying
\* depth deep and the array the deepest.
OnArray(op, depth) ==
    /\ Runs(op)
    /\ sp_internal >= depth
    /\ IsKind(stack_internal[sp_internal - depth + 1], "Array")
    /\ stack_internal[sp_internal - depth + 2].type = "INT"

GetReadsElement ==
    OnArray("ARRAY_GET", 2) =>
        LET elems == heap[stack_internal[sp_internal - 1].object].value
            i == stack_internal[sp_internal].i
        IN /\ sp_internal' = sp_internal - 1
           /\ stack_internal'[sp_internal'] =
                  IF i < 0 \/ i >= Len(elems) THEN createNIL ELSE elems[i + 1]

SetStoresElement ==
    (OnArray("ARRAY_SET", 3) /\ stack_internal[sp_internal - 1].i >= 0) =>
        LET arr == stack_internal[sp_internal - 2].object
            i == stack_internal[sp_internal - 1].i
            v == stack_internal[sp_internal]
            old == heap[arr].value
            new == heap'[arr].value
        IN /\ Len(new) = IF i >= Len(old) THEN i + 1 ELSE Len(old)
           /\ \A k \in 1..Len(old) : k # i + 1 => new[k] = old[k]
           /\ \A k \in (Len(old) + 1)..i : new[k] = createNIL
           /\ new[i + 1] = v

C23_Arrays == [][GetReadsElement /\ SetStoresElement]_vars

\* ARRAY_SET has stored Int 7 at index 1 of the array <<5>>, one past its
\* end, and ARRAY_GET at index 1 of the grown array has pushed Int 7.
C23_Witness ==
    /\ pc = "loop"
    /\ Len(trail) = 4
    /\ trail[2].op = "ARRAY_SET"
    /\ trail[2].stk = <<createOBJECT(1), createOBJECT(1), createINT(1), createINT(7)>>
    /\ trail[3].op = "PUSH_CONST"
    /\ trail[4].op = "ARRAY_GET"
    /\ trail[4].stk[2] = createINT(1)
    /\ heap[1].value = <<createINT(5), createINT(7)>>
    /\ sp_internal = 1
    /\ stack_internal[1] = createINT(7)

(***************************************************************************)
(* C24.  Every failure path caused by a mis-typed operand or another       *)
(* run-time anomaly (ARRAY_GET or ARRAY_SET on a non-array, GET_FIELD or   *)
(* SET_FIELD on a non-instance, MAP_GET or MAP_SET on a non-map, CALL with *)
(* an undefined function index, PUSH_CONST with a bad index) writes        *)
(* exactly one diagnostic line to the error stream.                        *)
(***************************************************************************)
\* The last instruction took one of the failure paths the claim names.
FailurePathTaken ==
    /\ pc = "loop"
    /\ \/ last.op \in {"ARRAY_GET", "ARRAY_SET"} /\ last.path \in {"not object", "not array"}
       \/ last.op \in {"GET_FIELD", "SET_FIELD"}
              /\ last.path \in {"not object", "not instance"}
       \/ last.op \in {"MAP_GET", "MAP_SET"} /\ last.path \in {"not object", "not map"}
       \/ last.op \in {"CALL", "PUSH_CONST"} /\ last.path = "bad index"

C24_OneDiagnosticLine == FailurePathTaken => Len(cerr) = 1

(***************************************************************************)
(* C25.  A collection runs only at an instruction boundary: before each    *)
(* instruction fetch the interpreter collects iff the heap object count    *)
(* exceeds the current threshold, and no allocation inside an opcode       *)
(* (allocate_string, allocate_array, allocate_map, allocate_instance) or   *)
(* inside the loader triggers a collection, so a Value an opcode has       *)
(* popped and not yet pushed again is never swept.                         *)
(***************************************************************************)
\* The step from the loop test to the fetch.
AtBoundary == pc = "loop" /\ pc' = "fetch"

CollectsIffOverThreshold ==
    AtBoundary =>
        /\ gc_log'.ran <=> Cardinality(Live(heap)) > memThresholdForNextGcCall
        /\ ~gc_log'.ran => heap' = heap /\ UNCHANGED memThresholdForNextGcCall

\* A step of an opcode or of the loader destroys no object.
NoSweepInside ==
    pc \in {"fetch", "loading"} =>
        /\ Live(heap) \subseteq Live(heap')
        /\ ~gc_log'.ran
        /\ UNCHANGED memThresholdForNextGcCall

C25_CollectAtBoundaryOnly == [][CollectsIffOverThreshold /\ NoSweepInside]_vars

\* NEW_ARRAY has allocated past the threshold and nothing was collected.
C25_Witness ==
    /\ pc = "loop"
    /\ last.op = "NEW_ARRAY"
    /\ Cardinality(Live(heap)) > memThresholdForNextGcCall
    /\ ~gc_log.ran
    /\ \A o \in DOMAIN heap : heap[o] # NoObject => ~heap[o].destroyed

(***************************************************************************)
(* C26.  The mark phase terminates on every heap graph, cyclic ones        *)
(* included (an array holding a map holding an instance whose field holds  *)
(* the array), visits each object's children at most once per collection,  *)
(* and on completion every object reachable from a root is marked.         *)
(***************************************************************************)
\* The objects the state of object o refers to.
Owns(o) ==
    CASE o.kind \in {"Array", "Map"} -> ObjectsOf(Range(o.value))
      [] o.kind = "Instance" -> ObjectsOf(Range(o.fields))
      [] o.kind = "BoundMethod" -> ObjectsOf({o.receiver})
      [] OTHER -> {}

\* The objects of heap h reachable from the objects in from.
RECURSIVE ReachableFrom(_, _)
ReachableFrom(h, from) ==
    LET next == from \cup UNION {Owns(h[o]) : o \in from}
    IN IF next = from THEN from ELSE ReachableFrom(h, next)

ChildrenVisitedOnce == \A o \in ObjIds : gc_log.visits[o] <= 1

ReachableMarked ==
    pc = "marked" =>
        \A o \in ReachableFrom(gc_log.before, ObjectsOf(gc_log.roots)) : heap[o].marked

C26_MarkTerminates ==
    /\ <>(pc = "marked")
    /\ [](pc \in {"marking", "marked"} => ChildrenVisitedOnce)
    /\ []ReachableMarked

\* The mark phase has ended on the cycle array -> map -> instance -> array,
\* entered from a global, with all three marked.
C26_Witness ==
    /\ pc = "marked"
    /\ gc_log.before[1].value = <<createOBJECT(2)>>
    /\ gc_log.before[2].value = MapPut(EmptyMap, "k", createOBJECT(3))
    /\ gc_log.before[3].fields = MapPut(EmptyMap, "k", createOBJECT(1))
    /\ gc_log.roots = {createOBJECT(1)}
    /\ \A o \in 1..3 : heap[o].marked /\ gc_log.visits[o] = 1

(***************************************************************************)
(* C27.  When the top frame's ip is at or beyond the end of its function's *)
(* code, by falling off the end or by a JUMP whose target is >= the code   *)
(* size, the interpreter behaves exactly as RETURN 0: the frame is popped, *)
(* sp is reset to that frame's local_base, and nothing is pushed.          *)
(***************************************************************************)
\* The fetch finds ip at or beyond the end of the code.
PastTheEnd == pc = "fetch" /\ call_frames # <<>> /\ TopFrame.ip >= Len(Code)

ReturnsNothing ==
    PastTheEnd =>
        /\ call_frames' = SubSeq(call_frames, 1, Len(call_frames) - 1)
        /\ sp_internal' = TopFrame.localStartsAt
        /\ stack_internal' = stack_internal

\* A JUMP whose target is at or beyond the end leaves ip at or beyond the end.
JumpPastTheEnd ==
    (pc = "fetch" /\ pc' = "loop" /\ last'.op = "JUMP" /\ last'.raw[1] >= Len(Code))
        => call_frames'[Len(call_frames')].ip >= Len(Code)

C27_EndOfCodeReturns == [][ReturnsNothing /\ JumpPastTheEnd]_vars

(***************************************************************************)
(* C28.  JUMP_IF_FALSE target and JUMP_IF_TRUE target each pop exactly one *)
(* condition Value whether or not the branch is taken; JUMP_IF_FALSE sets  *)
(* ip to target iff the condition is falsy and JUMP_IF_TRUE iff it is      *)
(* truthy; otherwise ip is the offset of the instruction following the     *)
(* 4-byte immediate; JUMP pops nothing.                                    *)
(***************************************************************************)
\* This step executes the jump op, which finds a condition on the stack.
Jumps(op) ==
    /\ Runs(op)
    /\ sp_internal >= 1

Branches(op, taken) ==
    Jumps(op) =>
        /\ sp_internal' = sp_internal - 1
        /\ stack_internal' = stack_internal
        /\ call_frames'[Len(call_frames')].ip =
               IF taken THEN last'.raw[1] ELSE TopFrame.ip + 5

C28_ConditionalJumps ==
    [][/\ Branches("JUMP_IF_FALSE", ~Truthy(stack_internal[sp_internal]))
       /\ Branches("JUMP_IF_TRUE", Truthy(stack_internal[sp_internal]))
       /\ Runs("JUMP") => sp_internal' = sp_internal /\ stack_internal' = stack_internal
      ]_vars

(***************************************************************************)
(* C29.  Comparison on non-numeric pairs: for operands of different value  *)
(* types EQ pushes false and NEQ pushes true; for two objects of different *)
(* variants, or two distinct objects that are not both Strings, EQ pushes  *)
(* false; for two Strings EQ, LT, GT, LTE and GTE compare the contents     *)
(* lexicographically; for every pair that is neither two numbers nor two   *)
(* Strings LT, GT, LTE and GTE push false; and NEQ always pushes the       *)
(* negation of what EQ pushes on the same operands.                        *)
(***************************************************************************)
\* The strings of the compared heaps in lexicographic order of their chars.
LexOrder == <<"", "B", "a", "ab", "b">>
LexRank(s) == CHOOSE i \in 1..Len(LexOrder) : LexOrder[i] = s

LeftOperand == popped(pop_back(S0))
RightOperand == popped(S0)
BothNumbers == LeftOperand.type \in {"INT", "DOUBLE"} /\ RightOperand.type \in {"INT", "DOUBLE"}
BothObjects == IsObj(LeftOperand) /\ IsObj(RightOperand)
BothStrings ==
    /\ BothObjects
    /\ heap[LeftOperand.object].kind = "String"
    /\ heap[RightOperand.object].kind = "String"

\* The instruction op completes and leaves the Bool res on top.
Compares(op, res) ==
    Runs(op) =>
        /\ sp_internal' >= 1
        /\ stack_internal'[sp_internal'] = createBOOL(res)

DifferentTypes ==
    (LeftOperand.type # RightOperand.type /\ ~BothNumbers) =>
        /\ Compares("EQ", FALSE)
        /\ Compares("NEQ", TRUE)

DifferentObjects ==
    (/\ BothObjects
     /\ \/ heap[LeftOperand.object].kind # heap[RightOperand.object].kind
        \/ LeftOperand.object # RightOperand.object /\ ~BothStrings) =>
        Compares("EQ", FALSE)

StringsByContents ==
    BothStrings =>
        LET x == LexRank(heap[LeftOperand.object].value)
            y == LexRank(heap[RightOperand.object].value)
        IN /\ Compares("EQ", x = y)
           /\ Compares("LT", x < y)
           /\ Compares("GT", x > y)
           /\ Compares("LTE", x <= y)
           /\ Compares("GTE", x >= y)

UnorderedPairs ==
    (~BothNumbers /\ ~BothStrings) =>
        \A op \in {"LT", "GT", "LTE", "GTE"} : Compares(op, FALSE)

NeqNegatesEq == Compares("NEQ", ~compare("EQ", LeftOperand, RightOperand))

C29_Comparisons ==
    [][/\ DifferentTypes
       /\ DifferentObjects
       /\ StringsByContents
       /\ UnorderedPairs
       /\ NeqNegatesEq]_vars

\* EQ on two distinct String objects that both hold "a" has pushed true.
C29_Witness ==
    /\ pc = "loop"
    /\ Len(trail) = 2
    /\ trail[2].op = "EQ"
    /\ trail[2].stk = <<createOBJECT(1), createOBJECT(3)>>
    /\ heap[1] = ObjString("a")
    /\ heap[3] = ObjString("a")
    /\ sp_internal = 1
    /\ stack_internal[1] = createBOOL(TRUE)

(***************************************************************************)
(* C30.  Maps: after MAP_SET(m, k, v), MAP_GET(m, k') pushes v for every   *)
(* key k' whose display string equals that of k, so that two keys of equal *)
(* display form address one entry, and the other entries of m are          *)
(* unchanged; MAP_GET of a key never set pushes Nil.                       *)
(***************************************************************************)
\* The instruction op meets a map depth - 1 below the top of the stack.
OnMap(op, depth) ==
    /\ Runs(op)
    /\ sp_internal >= depth
    /\ IsObj(stack_internal[sp_internal - depth + 1])
    /\ heap[stack_internal[sp_internal - depth + 1].object].kind = "Map"

SetBindsDisplayString ==
    OnMap("MAP_SET", 3) =>
        LET m == stack_internal[sp_internal - 2].object
            d == toString(stack_internal[sp_internal - 1], heap)
            old == heap[m].value
            new == heap'[m].value
        IN /\ DOMAIN new = DOMAIN old \cup {d}
           /\ new[d] = stack_internal[sp_internal]
           /\ \A x \in DOMAIN old \ {d} : new[x] = old[x]
           /\ \A o \in ObjIds \ {m} : heap'[o] = heap[o]

GetReadsEntry ==
    OnMap("MAP_GET", 2) =>
        LET entries == heap[stack_internal[sp_internal - 1].object].value
            d == toString(stack_internal[sp_internal], heap)
        IN /\ sp_internal' = sp_internal - 1
           /\ stack_internal'[sp_internal'] =
                  IF d \in DOMAIN entries THEN entries[d] ELSE createNIL
           /\ heap' = heap

\* MAP_SET(m, k, v) and then MAP_GET(m, k') with the display string of k.
SetThenGet ==
    /\ pc = "loop"
    /\ Len(trail) >= 3
    /\ trail[Len(trail) - 1].op = "MAP_SET"
    /\ trail[Len(trail) - 1].path = "ok"
    /\ trail[Len(trail) - 1].sp >= 5
    /\ trail[Len(trail)].op = "MAP_GET"
    /\ LET before == trail[Len(trail) - 1]
           m == before.stk[before.sp - 2]
           k == before.stk[before.sp - 1]
           m2 == before.stk[before.sp - 4]
           k2 == before.stk[before.sp - 3]
       IN m2 = m /\ toString(k2, heap) = toString(k, heap)

GetAfterSet ==
    SetThenGet =>
        LET before == trail[Len(trail) - 1]
        IN /\ sp_internal = before.sp - 4
           /\ stack_internal[sp_internal] = before.stk[before.sp]

C30_Maps == [][SetBindsDisplayString /\ GetReadsEntry]_vars /\ []GetAfterSet

\* MAP_SET with one String "k" as key stored 7 in a map that held the entry
\* of "1" and that of "<array>"; MAP_GET with another String "k" pushed 7,
\* and the two entries are as they were.
C30_Witness ==
    /\ SetThenGet
    /\ trail[2].stk = <<createOBJECT(1), createOBJECT(3),
                        createOBJECT(1), createOBJECT(2), createINT(7)>>
    /\ heap[2].kind = "String"
    /\ heap[3].kind = "String"
    /\ heap[2].value = "k"
    /\ heap[3].value = "k"
    /\ sp_internal = 1
    /\ stack_internal[1] = createINT(7)
    /\ DOMAIN heap[1].value = {"1", "<array>", get_representor(heap[2])}
    /\ heap[1].value["1"] = createINT(5)
    /\ heap[1].value["<array>"] = createINT(6)

(***************************************************************************)
(* C31.  Instance fields: NEW_OBJECT pushes a fresh Instance with no       *)
(* fields whose class name is the string constant at the index; after      *)
(* SET_FIELD f of v on instance o, GET_FIELD f on o pushes v, and every    *)
(* other field of o and every other instance is unchanged; GET_FIELD of a  *)
(* field never set pushes Nil; IS_INSTANCE t pops one Value and pushes     *)
(* true iff it is an Instance whose class name equals constant t.          *)
(***************************************************************************)
\* The constant at idx is a String.
StringAt(idx) ==
    /\ U32Lt(idx, Len(global_constants))
    /\ IsObj(global_constants[idx + 1])
    /\ ~heap[global_constants[idx + 1].object].destroyed
    /\ heap[global_constants[idx + 1].object].kind = "String"

\* The Value depth - 1 below the top is an instance no collection destroyed.
InstanceBelow(depth) ==
    /\ sp_internal >= depth
    /\ IsObj(stack_internal[sp_internal - depth + 1])
    /\ ~heap[stack_internal[sp_internal - depth + 1].object].destroyed
    /\ heap[stack_internal[sp_internal - depth + 1].object].kind = "Instance"

NewObjectOfClass ==
    (Runs("NEW_OBJECT") /\ StringAt(last'.raw[1])) =>
        /\ sp_internal' = sp_internal + 1
        /\ stack_internal'[sp_internal'].type = "OBJECT"
        /\ LET o == stack_internal'[sp_internal'].object
           IN /\ o \in ObjIds \ Live(heap)
              /\ heap'[o].kind = "Instance"
              /\ heap'[o].className = NameAt(last'.raw[1])
              /\ DOMAIN heap'[o].fields = {}
              /\ \A p \in Live(heap) : heap'[p] = heap[p]

SetFieldWrites ==
    (Runs("SET_FIELD") /\ StringAt(last'.raw[1]) /\ InstanceBelow(2)) =>
        LET o == stack_internal[sp_internal - 1].object
            f == NameAt(last'.raw[1])
        IN /\ DOMAIN heap'[o].fields = DOMAIN heap[o].fields \cup {f}
           /\ heap'[o].fields[f] = stack_internal[sp_internal]
           /\ \A g \in DOMAIN heap[o].fields \ {f} : heap'[o].fields[g] = heap[o].fields[g]
           /\ \A p \in ObjIds \ {o} : heap'[p] = heap[p]

GetFieldReads ==
    (Runs("GET_FIELD") /\ StringAt(last'.raw[1]) /\ InstanceBelow(1)) =>
        LET fields == heap[stack_internal[sp_internal].object].fields
            f == NameAt(last'.raw[1])
        IN /\ sp_internal' = sp_internal
           /\ stack_internal'[sp_internal'] =
                  IF f \in DOMAIN fields THEN fields[f] ELSE createNIL
           /\ heap' = heap

IsInstanceOfClass ==
    (Runs("IS_INSTANCE") /\ sp_internal >= 1 /\ ~Dangling(stack_internal[sp_internal])) =>
        /\ sp_internal' = sp_internal
        /\ stack_internal'[sp_internal'] =
               createBOOL(/\ InstanceBelow(1)
                          /\ StringAt(last'.raw[1])
                          /\ heap[stack_internal[sp_internal].object].className
                                 = NameAt(last'.raw[1]))

C31_InstanceFields ==
    [][NewObjectOfClass /\ SetFieldWrites /\ GetFieldReads /\ IsInstanceOfClass]_vars

(***************************************************************************)
(* C32.  FFI library cache: within one VM, over any sequence of CALL_FFI   *)
(* instructions, each library path is successfully opened at most once and *)
(* later calls reuse the cached handle; a failed open is not cached and is *)
(* retried on the next use; no handle is ever closed or removed from the   *)
(* cache; and two VM instances do not share a cache.                       *)
(***************************************************************************)
\* Entry i of ffi_log is a successful dlopen of path by vm.
Opens(i, vm, path) ==
    /\ ffi_log[i].vm = vm
    /\ ffi_log[i].path = path
    /\ ffi_log[i].dlopen
    /\ ffi_log[i].h # NULL

OpenedAtMostOnce ==
    \A i, j \in DOMAIN ffi_log :
        (i < j /\ Opens(i, ffi_log[j].vm, ffi_log[j].path)) =>
            /\ ~ffi_log[j].dlopen
            /\ ffi_log[j].h = ffi_log[i].h

FailedOpenRetried ==
    \A j \in DOMAIN ffi_log :
        (\A i \in 1..(j - 1) : ~Opens(i, ffi_log[j].vm, ffi_log[j].path)) =>
            ffi_log[j].dlopen

CacheOfItsOwnOpens ==
    \A v \in VMs :
        /\ DOMAIN ffi[v].libs =
               {ffi_log[i].path : i \in {k \in DOMAIN ffi_log : Opens(k, v, ffi_log[k].path)}}
        /\ \A i \in DOMAIN ffi_log :
               Opens(i, v, ffi_log[i].path) => ffi[v].libs[ffi_log[i].path] = ffi_log[i].h

NeverRemoved ==
    \A v \in VMs : \A p \in DOMAIN ffi[v].libs :
        /\ p \in DOMAIN ffi'[v].libs
        /\ ffi'[v].libs[p] = ffi[v].libs[p]

PushLaw(op, S, T) ==
    last'.op = op =>
        /\ T.sp = S.sp + 1
        /\ T.sp <= Len(T.stk)
        /\ T.stk[T.sp] = last'.raw[1]
        /\ \A i \in 1..S.sp : T.stk[i] = S.stk[i]

PopLaw(op, S, T) ==
    (last'.op = op /\ S.sp > 0) =>
        /\ last'.raw[1] = S.stk[S.sp]
        /\ T.sp = S.sp - 1
        /\ \A i \in 1..T.sp : T.stk[i] = S.stk[i]

PeekLaw(op, S, T) ==
    (last'.op = op /\ last'.raw[1] < S.sp) =>
        /\ last'.raw[2] = S.stk[S.sp - last'.raw[1]]
        /\ T = S

BackLaws ==
    LET S == [stk |-> stack_internal, sp |-> sp_internal]
        T == [stk |-> stack_internal', sp |-> sp_internal']
    IN PushLaw("push_back", S, T) /\ PopLaw("pop_back", S, T) /\ PeekLaw("peek_back", S, T)

FrontLaws ==
    LET S == [stk |-> stack, sp |-> sp]
        T == [stk |-> stack', sp |-> sp']
    IN PushLaw("push", S, T) /\ PopLaw("pop", S, T) /\ PeekLaw("peek", S, T)

C33_StackOperations == [][FrontLaws /\ BackLaws]_vars
(***************************************************************************)
(* C34.  Int arithmetic is exact: for Int operands a and b, ADD, SUB and   *)
(* MUL push the Int that is the mathematical sum, difference or product,   *)
(* also where that lies outside the 32-bit range.                          *)
(***************************************************************************)
\* An integer as its digits in base 65536, the signed one last.
Digits(v) == <<v % 65536, v \div 65536>>

SumDigits(x, y) == <<(x[1] + y[1]) % 65536, x[2] + y[2] + (x[1] + y[1]) \div 65536>>
DifferenceDigits(x, y) == <<(x[1] - y[1]) % 65536, x[2] - y[2] + (x[1] - y[1]) \div 65536>>

\* r is a * b: the magnitudes agree byte by byte, and so do the signs.
IsProduct(r, a, b) ==
    /\ Magnitude(r) \o <<0, 0, 0, 0>> = Product(Magnitude(a), Magnitude(b))
    /\ r # 0 => ((r < 0) <=> ((a < 0) # (b < 0)))

IntArithExecuted ==
    /\ last.op \in IntArithOps
    /\ pc \in {"loop", "crashed"}
    /\ OperandA.type = "INT"
    /\ OperandB.type = "INT"

C34_IntArithmeticExact ==
    IntArithExecuted =>
        LET a == OperandA.i
            b == OperandB.i
            result == stack_internal[sp_internal]
        IN /\ pc = "loop"
           /\ sp_internal >= 1
           /\ result.type = "INT"
           /\ last.op = "ADD" => Digits(result.i) = SumDigits(Digits(a), Digits(b))
           /\ last.op = "SUB" => Digits(result.i) = DifferenceDigits(Digits(a), Digits(b))
           /\ last.op = "MUL" => IsProduct(result.i, a, b)

(***************************************************************************)
(* C35.  The loaded module is immutable during execution: no step of run() *)
(* changes the constant pool's length or elements, the function table, a   *)
(* function's code, arg_count or local_count, or the name index.           *)
(***************************************************************************)
ModuleTables == <<global_constants, functions, function_index_by_name>>

C35_ModuleImmutable == [][ModuleTables' = ModuleTables]_vars

TablesAsLoaded ==
    /\ global_constants = LoadedModule.global_constants
    /\ functions = LoadedModule.functions
    /\ function_index_by_name = LoadedModule.function_index_by_name

\* STRING_CONCAT has allocated the String "mainlen", and the tables are those
\* the module was loaded with.
C35_Witness ==
    /\ TablesAsLoaded
    /\ pc = "loop"
    /\ last.op = "STRING_CONCAT"
    /\ heap[6].kind = "String"
    /\ heap[6].value = "mainlen"

(***************************************************************************)
(* C36.  STORE_LOCAL slot pops the top Value v and writes it to            *)
(* stack[local_base + slot], first extending the stack with Nils when that *)
(* index is at or above the sp the pop leaves, and changes no other slot;  *)
(* LOAD_LOCAL slot pushes the Value of a slot below sp and Nil for a slot  *)
(* at or above sp; a LOAD_LOCAL that follows a STORE_LOCAL of the same     *)
(* slot pushes v.                                                          *)
(***************************************************************************)
LocalBase == call_frames[Len(call_frames)].localStartsAt
SlotOf(instr) == LocalBase + instr.raw[1]

StoreLocalWrites ==
    (Runs("STORE_LOCAL") /\ sp_internal >= 1) =>
        LET abs == SlotOf(last')
            v == stack_internal[sp_internal]
            popped_sp == sp_internal - 1
        IN /\ sp_internal' = IF abs >= popped_sp THEN abs + 1 ELSE popped_sp
           /\ Len(stack_internal') >= sp_internal'
           /\ stack_internal'[abs + 1] = v
           /\ \A k \in (1..Len(stack_internal')) \ {abs + 1} :
                 stack_internal'[k] = IF k > popped_sp /\ k <= abs THEN createNIL
                                      ELSE stack_internal[k]
           /\ call_frames' = call_frames

LoadLocalReads ==
    Runs("LOAD_LOCAL") =>
        LET abs == SlotOf(last')
        IN /\ sp_internal' = sp_internal + 1
           /\ stack_internal'[sp_internal'] =
                  IF abs < sp_internal THEN stack_internal[abs + 1] ELSE createNIL
           /\ \A k \in 1..sp_internal : stack_internal'[k] = stack_internal[k]
           /\ call_frames' = call_frames

\* The last two instructions were STORE_LOCAL slot, with a Value to pop, and
\* LOAD_LOCAL of the same slot.
StoredThenLoaded ==
    /\ Len(trail) >= 3
    /\ trail[Len(trail)].op = "LOAD_LOCAL"
    /\ trail[Len(trail) - 1].op = "STORE_LOCAL"
    /\ trail[Len(trail)].raw = trail[Len(trail) - 1].raw
    /\ trail[Len(trail) - 1].sp >= 1
    /\ pc = "loop"

LoadAfterStore ==
    StoredThenLoaded =>
        stack_internal[sp_internal] = trail[Len(trail) - 1].stk[trail[Len(trail) - 1].sp]

C36_Locals == [][StoreLocalWrites /\ LoadLocalReads]_vars /\ []LoadAfterStore

\* In the callee, whose locals start at slot 1 with sp_internal = 2, Int 2 was
\* on top: STORE_LOCAL 2 has popped it, padded with Nils up to stack[3] and
\* written Int 2 there, and LOAD_LOCAL 2 has pushed it.
C36_Witness ==
    /\ StoredThenLoaded
    /\ LocalBase = 1
    /\ trail[Len(trail)].raw = <<2>>
    /\ trail[Len(trail) - 1].sp = 2
    /\ sp_internal = 5
    /\ stack_internal = <<createINT(1), createNIL, createNIL, createINT(2),
                          createINT(2)>>

(***************************************************************************)
(* C37.  Locals and operand temporaries of a frame never overlap: at every *)
(* instruction boundary, for every active frame, the entry frame included, *)
(* sp >= local_base + local_count.                                         *)
(***************************************************************************)
LocalCountOf(frame) == functions[frame.function + 1].localCount

AtInstructionBoundary == pc \in {"loop", "fetch"} /\ call_frames # <<>>

C37_LocalsBelowOperands ==
    AtInstructionBoundary =>
        \A k \in 1..Len(call_frames) :
            U32Le(U32Add(call_frames[k].localStartsAt, LocalCountOf(call_frames[k])),
                  sp_internal)

(***************************************************************************)
(* C38.  For every frame on the call-frame stack, local_base <= sp and     *)
(* local_base is at or above the local_base of the frame beneath it, in    *)
(* every reachable state; CALL with argc greater than sp does not produce  *)
(* a wrapped-around local_base, and RETURN never sets sp above its value   *)
(* at the time of the CALL.                                                *)
(***************************************************************************)
BasesOrdered ==
    \A k \in 1..Len(call_frames) :
        /\ U32Le(call_frames[k].localStartsAt, sp_internal)
        /\ k > 1 => U32Le(call_frames[k - 1].localStartsAt, call_frames[k].localStartsAt)

\* CALL has opened a frame: its local_base is at or below the sp of the CALL.
CallBaseNotWrapped ==
    (Runs("CALL") /\ Len(call_frames') > Len(call_frames)) =>
        U32Le(call_frames'[Len(call_frames')].localStartsAt, sp_internal)

\* RETURN from a frame CALL opened: the sp it restores, before it pushes the
\* return values, is at or below the sp of that CALL.
ReturnRestoresBelowCall ==
    (Runs("RETURN") /\ call_log[Len(call_log)].byCall) =>
        U32Le(call_frames[Len(call_frames)].localStartsAt, call_log[Len(call_log)].sp)

C38_FrameBases ==
    []BasesOrdered /\ [][CallBaseNotWrapped /\ ReturnRestoresBelowCall]_vars

(***************************************************************************)
(* C39.  call_function_by_index(fn, argCount) follows the CALL convention: *)
(* the argCount Values on top of the stack become locals 0..argCount-1 of  *)
(* the new frame (local_base = sp - argCount), so a callback forEach has   *)
(* invoked reads its arguments with LOAD_LOCAL 0..argCount-1; an           *)
(* out-of-range fn pushes no frame and leaves the stack unchanged.         *)
(***************************************************************************)
\* The frames call_function_by_index pushed, by their entries in call_log.
ByIndex(k) == ~call_log[k].byCall

ArgumentsAreLocals ==
    \A k \in 1..Len(call_frames) :
        ByIndex(k) =>
            call_frames[k].localStartsAt = U32Sub(call_log[k].sp, call_log[k].argc)

\* LOAD_LOCAL of an argument's slot, the first instruction of a callback.
CallbackReadsArgument ==
    (/\ Runs("LOAD_LOCAL")
     /\ last.op = "CALL_NATIVE"
     /\ ByIndex(Len(call_log))
     /\ last'.raw[1] < call_log[Len(call_log)].argc) =>
        LET call == call_log[Len(call_log)]
        IN stack_internal'[sp_internal'] = call.stk[call.sp - call.argc + last'.raw[1] + 1]

\* forEach, main's first instruction, with a callback whose function index is
\* outside the table: every call_function_by_index leaves the frames as they
\* are, and the stack holds the items forEach pushed and its Nil.
OutOfRangePushesNoFrame ==
    (/\ Runs("CALL_NATIVE")
     /\ last = NoLast
     /\ native_log' = <<[fn |-> "native_forEach_simple", argc |-> 2]>>
     /\ heap[3] = ObjFunction(3)) =>
        /\ call_frames' = call_frames
        /\ sp_internal' = Len(heap[2].value) + 1

C39_CallByIndex ==
    []ArgumentsAreLocals /\ [][CallbackReadsArgument /\ OutOfRangePushesNoFrame]_vars

(***************************************************************************)
(* C40.  forEach(list, callback) runs the callback once per list element   *)
(* in ascending index order, each invocation finishes before the next      *)
(* begins, and forEach's Nil result is on top of the stack when the        *)
(* instruction after the CALL_NATIVE executes.                             *)
(***************************************************************************)
\* main's first instruction was CALL_NATIVE "forEach" on the list and the
\* callback, and run() is about to go on.
ForEachReturned ==
    /\ pc = "loop"
    /\ Len(trail) = 2
    /\ last.op = "CALL_NATIVE"
    /\ native_log = <<[fn |-> "native_forEach_simple", argc |-> 2]>>
    /\ heap[3].kind = "Function"
    /\ heap[3].functionIndex = 1

\* The frames of callbacks not yet run, the next to run last.
PendingCallbacks == {k \in 2..Len(call_frames) : ByIndex(k)}

\* The index in the list of the element a callback's frame was pushed for
\* (the list holds Int 2, then Int 3).
ElementOf(k) == call_log[k].stk[call_log[k].sp].i - 2

\* Callbacks still to run come in ascending order of their elements.
AscendingOrder ==
    \A j, k \in PendingCallbacks : j < k => ElementOf(k) < ElementOf(j)

C40_ForEach ==
    /\ AscendingOrder
    /\ ForEachReturned =>
          /\ PendingCallbacks = {}
          /\ sp_internal = 1
          /\ stack_internal[1] = createNIL

====
